---------------------------- MODULE Spec2Model ----------------------------
(***************************************************************************)
(* Bulk-import reconciliation pipeline of the double-entry accounting      *)
(* engine: credit apportionment (make_payment_splits), duplicate           *)
(* detection (DuplicationProtectedPreparator.validate_global), overpayment *)
(* review (CreditApportionmentMixin.review) and bank-transfer resolution   *)
(* (DebtTransferPaymentPreparator).                                        *)
(***************************************************************************)
EXTENDS Integers, Sequences, FiniteSets

(* ------------------------------ bounds -------------------------------- *)
\* longest payment sequence and longest debt sequence handed to the engine
MaxItems == 2
\* amounts are 1..MaxAmount (in units of one cent)
MaxAmount == 2
\* timestamps are 0..MaxTime, at the bank's resolution of one day
MaxTime == 1
\* most rows in a batch handed to the duplicate detector
MaxBatch == 3
\* most payments in the stored history
MaxHistory == 2
\* most rows in a batch that is reviewed, or resolved against the parties
MaxRows == 2
\* most debts in the stored debt table
MaxDebts == 1

VARIABLES
    gen,                \* the frame of the running make_payment_splits generator
    pc,                 \* where the preparator stands in valid_transactions
    transactions,       \* LedgerEntryPreparator.transactions
    errors,             \* LedgerEntryPreparator._errors
    valid_transactions, \* LedgerEntryPreparator._valid_transactions
    members_by_id,      \* DebtTransferPaymentPreparator._members_by_id
    cursor,             \* rows of self.transactions that valid(t) has seen
    log,                \* what was handed to the module's logger
    raised,             \* the exception that left valid_transactions, if any
    store_payments,     \* the InternalPayment table (the history)
    store_debts,        \* the InternalDebtItem table
    store_members,      \* the ChoirMember table
    members_by_str,     \* FetchMembersMixin._members_by_str
    parser,             \* a FinancialCSVParser and the file it reads
    rule,               \* a PricingRule and the option registry
    record,             \* a DoubleBookModel instance and its cached properties
    form,               \* FinancialCSVUploadForm.submit_confirmation in progress
    tracking            \* a payment tracking number on its way through the codec

prepVars ==
    <<pc, transactions, errors, valid_transactions, members_by_id, cursor,
      log, raised>>

storeVars == <<store_payments, store_debts, store_members>>

resolverVars == <<members_by_str>>

parserVars == <<parser>>

pricingVars == <<rule>>

recordVars == <<record>>

formVars == <<form>>

codecVars == <<tracking>>

ledgerVars == <<recordVars, formVars, codecVars>>

otherVars == <<resolverVars, parserVars, pricingVars, ledgerVars>>

vars == <<gen, prepVars, storeVars, otherVars>>

(* --------------------------- generic helpers -------------------------- *)
RECURSIVE SumAmounts(_)
\* sum(s.amount for s in splits)
SumAmounts(splits) ==
    IF splits = <<>> THEN 0 ELSE Head(splits).amount + SumAmounts(Tail(splits))

RECURSIVE SumTotals(_)
\* sum(p.total_amount for p in payments)
SumTotals(records) ==
    IF records = <<>> THEN 0
    ELSE Head(records).total_amount + SumTotals(Tail(records))

\* mutant: the split takes the whole credit, whatever the debt still needs
Min_second(a, b) == b

\* mutant: one unit at a time
Min_unit(a, b) == 1

\* min(debt_remaining, credit_remaining)
Min(a, b) == IF a <= b THEN a ELSE b

\* mutant: the matched debt stays in the candidate list
RemoveAt_kept(s, ix) == s

\* del debt_list[index]
RemoveAt(s, ix) == SubSeq(s, 1, ix - 1) \o SubSeq(s, ix + 1, Len(s))

Range(s) == {s[i] : i \in 1..Len(s)}

(* ------------------------- double-book records ------------------------ *)
\* Python's None for the `payment` and `debt` locals
None == [id |-> 0, timestamp |-> 0, total_amount |-> 0, matched_balance |-> 0]

\* DoubleBookModel.unmatched_balance: total_amount - matched_balance
unmatched_balance(r) == r.total_amount - r.matched_balance

\* BaseDebtRecord.balance
balance(d) == unmatched_balance(d)

\* BasePaymentRecord.credit_remaining
credit_remaining(p) == unmatched_balance(p)

(* ------------------------- make_payment_splits ------------------------ *)
\* split_model(payment=..., debt=..., amount=...)
split_model(payment, debt, amount) ==
    [payment |-> payment, debt |-> debt, amount |-> amount]

\* ApportionmentResult(fully_used_payments=[], ...)
ApportionmentResult ==
    [fully_used_payments |-> <<>>, fully_paid_debts |-> <<>>,
     remaining_payments |-> <<>>, remaining_debts |-> <<>>]

\* The generator frame on entry: results allocated, and either the exact-match
\* loop about to start or the iterators taken straight from the arguments.
make_payment_splits(payments, debts, prioritise_exact_amount_match, exact_amount_match_only) ==
    LET exact == prioritise_exact_amount_match \/ exact_amount_match_only IN
    [pc |-> IF exact THEN "exact" ELSE "greedy",
     payments |-> payments, debts |-> debts,
     prioritise_exact_amount_match |-> prioritise_exact_amount_match,
     exact_amount_match_only |-> exact_amount_match_only,
     payment_list |-> IF exact THEN payments ELSE <<>>,
     debt_list |-> IF exact THEN debts ELSE <<>>,
     payments_todo |-> <<>>,
     examined |-> 0,
     payments_iter |-> IF exact THEN <<>> ELSE payments,
     debts_iter |-> IF exact THEN <<>> ELSE debts,
     payment |-> None, debt |-> None,
     credit_remaining |-> 0, debt_remaining |-> 0,
     splits |-> <<>>,
     results |-> ApportionmentResult]

\* mutant: the exact match ignores the timestamps
ExactMatches_any_time(debt_list, payment) ==
    {ix \in 1..Len(debt_list) :
        balance(debt_list[ix]) = credit_remaining(payment)}

\* indices of the debts of debt_list that match the payment exactly:
\* d.balance == amt and d.timestamp <= payment.timestamp
ExactMatches(debt_list, payment) ==
    {ix \in 1..Len(debt_list) :
        /\ balance(debt_list[ix]) = credit_remaining(payment)
        /\ debt_list[ix].timestamp <= payment.timestamp}

\* mutant: the last match instead of the first
FirstExactMatch_last(debt_list, payment) ==
    LET m == {ix \in 1..Len(debt_list) :
                 /\ balance(debt_list[ix]) = credit_remaining(payment)
                 /\ debt_list[ix].timestamp <= payment.timestamp}
    IN  IF m = {} THEN 0 ELSE CHOOSE ix \in m : \A jx \in m : ix >= jx

\* next(...) over enumerate(debt_list): the first match, 0 for StopIteration
FirstExactMatch(debt_list, payment) ==
    LET m == ExactMatches(debt_list, payment) IN
    IF m = {} THEN 0 ELSE CHOOSE ix \in m : \A jx \in m : ix <= jx

\* one pass of `for payment in payment_list`
ExactStep(g) ==
    LET payment == g.payment_list[g.examined + 1]
        amt == credit_remaining(payment)
        index == FirstExactMatch(g.debt_list, payment)
    IN  IF index # 0
        THEN LET exact_match == g.debt_list[index] IN
             [g EXCEPT
                !.examined = @ + 1,
                !.debt_list = RemoveAt(@, index),
                !.splits = Append(@, split_model(payment, exact_match, amt)),
                !.results.fully_used_payments = Append(@, payment),
                !.results.fully_paid_debts = Append(@, exact_match)]
        ELSE [g EXCEPT
                !.examined = @ + 1,
                !.payments_todo = Append(@, payment)]

\* mutant: exact_amount_match_only does not return early
ExactEnd_greedy(g) ==
    [g EXCEPT !.pc = "greedy",
              !.debts_iter = g.debt_list,
              !.payments_iter = g.payments_todo]

\* mutant: the greedy phase starts over from the arguments
ExactEnd_rewound(g) ==
    IF g.exact_amount_match_only
    THEN [g EXCEPT
            !.pc = "done",
            !.results.remaining_debts = @ \o g.debt_list,
            !.results.remaining_payments = @ \o g.payments_todo]
    ELSE [g EXCEPT
            !.pc = "greedy",
            !.debts_iter = g.debts,
            !.payments_iter = g.payments]

\* after the for loop: the iterators over what phase 1 left, and the early
\* return of exact_amount_match_only
ExactEnd(g) ==
    IF g.exact_amount_match_only
    THEN [g EXCEPT
            !.pc = "done",
            !.results.remaining_debts = @ \o g.debt_list,
            !.results.remaining_payments = @ \o g.payments_todo]
    ELSE [g EXCEPT
            !.pc = "greedy",
            !.debts_iter = g.debt_list,
            !.payments_iter = g.payments_todo]

\* mutant: the next debt is pulled whenever there is one
SeekDebt_eager(g) ==
    IF g.debts_iter = <<>>
    THEN IF g.debt_remaining # 0 THEN g
         ELSE [g EXCEPT !.pc = "nodebt",
                        !.results.fully_paid_debts =
                            IF g.debt # None THEN Append(@, g.debt) ELSE @]
    ELSE [g EXCEPT !.debt = Head(g.debts_iter),
                   !.debts_iter = Tail(@),
                   !.debt_remaining = balance(Head(g.debts_iter))]

RECURSIVE SeekDebt(_)
\* `while not debt_remaining`: report the covered debt, pull the next one;
\* pc "nodebt" stands for the StopIteration of next(debts_iter)
SeekDebt(g) ==
    IF g.debt_remaining # 0 THEN g
    ELSE LET g1 == IF g.debt # None
                   THEN [g EXCEPT !.results.fully_paid_debts = Append(@, g.debt)]
                   ELSE g
         IN  IF g1.debts_iter = <<>>
             THEN [g1 EXCEPT !.pc = "nodebt"]
             ELSE SeekDebt([g1 EXCEPT
                              !.debt = Head(g1.debts_iter),
                              !.debts_iter = Tail(@),
                              !.debt_remaining = balance(Head(g1.debts_iter))])

RECURSIVE SeekPayment(_)
\* `while not credit_remaining or payment.timestamp < debt.timestamp`: report
\* the payment in hand, pull the next one; pc "nopayment" stands for the
\* StopIteration of next(payments_iter)
SeekPayment(g) ==
    IF ~(g.credit_remaining = 0 \/ g.payment.timestamp < g.debt.timestamp)
    THEN g
    ELSE LET g1 == IF g.payment # None
                   THEN IF g.credit_remaining # 0
                        THEN [g EXCEPT !.results.remaining_payments =
                                            Append(@, g.payment)]
                        ELSE [g EXCEPT !.results.fully_used_payments =
                                            Append(@, g.payment)]
                   ELSE g
         IN  IF g1.payments_iter = <<>>
             THEN [g1 EXCEPT !.pc = "nopayment"]
             ELSE SeekPayment([g1 EXCEPT
                                 !.payment = Head(g1.payments_iter),
                                 !.payments_iter = Tail(@),
                                 !.credit_remaining =
                                     credit_remaining(Head(g1.payments_iter))])

\* one pass of `while True`, up to its yield or its break
GreedyStep(g) ==
    LET g1 == SeekDebt(g) IN
    IF g1.pc = "nodebt"
    THEN \* all debts fully paid back, bail
         [g1 EXCEPT
            !.pc = "done",
            !.results.remaining_payments =
                IF g1.credit_remaining # 0 THEN Append(@, g1.payment) ELSE @]
    ELSE LET g2 == SeekPayment(g1) IN
         IF g2.pc = "nopayment"
         THEN \* no money left to pay stuff, bail
              [g2 EXCEPT
                 !.pc = "done",
                 !.results.remaining_debts =
                     IF g2.debt_remaining # 0 THEN Append(@, g2.debt) ELSE @]
         ELSE LET amt == Min(g2.debt_remaining, g2.credit_remaining) IN
              [g2 EXCEPT
                 !.credit_remaining = @ - amt,
                 !.debt_remaining = @ - amt,
                 !.splits = Append(@, split_model(g2.payment, g2.debt, amt))]

\* the generator resumed once
GenStep(g) ==
    CASE g.pc = "exact" /\ g.examined < Len(g.payment_list) -> ExactStep(g)
      [] g.pc = "exact" /\ g.examined >= Len(g.payment_list) -> ExactEnd(g)
      [] g.pc = "greedy" -> GreedyStep(g)
      [] OTHER -> g

(* --------------------------- ledger entries --------------------------- *)
\* payments.PAYMENT_NATURE_TRANSFER
PAYMENT_NATURE_TRANSFER == "transfer"

\* timezone.localdate(timestamp); timestamps are kept at day resolution
localdate(timestamp) == timestamp

\* self.model(**kwargs) with model = InternalPayment: not saved yet, so nothing
\* is matched against it; the line number stands for the object's identity
InternalPayment(line_no, total_amount, timestamp, member, nature) ==
    [id |-> line_no, timestamp |-> timestamp, total_amount |-> total_amount,
     matched_balance |-> 0, member |-> member, nature |-> nature]

\* `ledger_entry = None` of a fresh TransactionInfo
NoEntry == InternalPayment(0, 0, 0, 0, "")

\* DuplicationProtectionMixin.dupcheck_signature with
\* dupcheck_signature_fields = ('nature', 'member')
dupcheck_signature(entry) ==
    <<localdate(entry.timestamp), entry.total_amount, entry.nature, entry.member>>

(* ----------------------------- error lists ---------------------------- *)
RECURSIVE sorted(_)
\* sorted(line_nos)
sorted(line_nos) ==
    IF line_nos = <<>> THEN <<>>
    ELSE LET least == CHOOSE i \in 1..Len(line_nos) :
                          \A j \in 1..Len(line_nos) :
                              \/ line_nos[i] < line_nos[j]
                              \/ (line_nos[i] = line_nos[j] /\ i <= j)
         IN  <<line_nos[least]>> \o sorted(RemoveAt(line_nos, least))

\* [t.line_no for t in transactions]
LineNos(ts) == [i \in 1..Len(ts) |-> ts[i].line_no]

\* mutant: the new error goes to the end of the list
error_at_lines_appended(errs, line_nos, msg, params) ==
    Append(errs, [lines |-> sorted(line_nos), msg |-> msg, params |-> params])

\* LedgerEntryPreparator.error_at_lines: self._errors.insert(0, ...)
error_at_lines(errs, line_nos, msg, params) ==
    <<[lines |-> sorted(line_nos), msg |-> msg, params |-> params]>> \o errs

(* -------------------------- duplicate detector ------------------------ *)
\* min(dates) and max(dates)
MinDate(ts) ==
    CHOOSE d \in {localdate(ts[i].timestamp) : i \in 1..Len(ts)} :
        \A i \in 1..Len(ts) : d <= localdate(ts[i].timestamp)

MaxDate(ts) ==
    CHOOSE d \in {localdate(ts[i].timestamp) : i \in 1..Len(ts)} :
        \A i \in 1..Len(ts) : d >= localdate(ts[i].timestamp)

\* mutant: the last day of the batch is left out of the history
InDateBounds_open(table, min_date, max_date) ==
    LET within(entry) == /\ localdate(entry.timestamp) >= min_date
                         /\ localdate(entry.timestamp) < max_date
    IN  SelectSeq(table, within)

\* the filter of DuplicationProtectedQuerySet.dupcheck_buckets:
\* timestamp__gte=min_date, timestamp__lte=max_date
InDateBounds(table, min_date, max_date) ==
    LET within(entry) == /\ localdate(entry.timestamp) >= min_date
                         /\ localdate(entry.timestamp) <= max_date
    IN  SelectSeq(table, within)

\* historical_buckets[dup_sig] of the defaultdict(int) that dupcheck_buckets
\* fills from the filtered queryset
HistoricalCount(qs, dup_sig) ==
    Cardinality({i \in 1..Len(qs) : dupcheck_signature(qs[i]) = dup_sig})

RECURSIVE BucketKeys(_)
\* the keys of import_buckets, in the order the loop first meets them
BucketKeys(ts) ==
    IF ts = <<>> THEN <<>>
    ELSE LET front == BucketKeys(SubSeq(ts, 1, Len(ts) - 1))
             sig == dupcheck_signature(ts[Len(ts)].ledger_entry)
         IN  IF sig \in Range(front) THEN front ELSE Append(front, sig)

\* import_buckets[sig]
ImportBucket(ts, sig) ==
    LET same(t) == dupcheck_signature(t.ledger_entry) = sig IN SelectSeq(ts, same)

\* mutant: rows alike within one batch count as duplicates of each other
DupCount_within_batch(occ_in_hist, occ_in_import) ==
    IF occ_in_hist = 0 THEN occ_in_import - 1 ELSE Min(occ_in_hist, occ_in_import)

\* dupcount = min(occ_in_hist, occ_in_import)
DupCount(occ_in_hist, occ_in_import) == Min(occ_in_hist, occ_in_import)

\* mutant: the last dupcount rows pass instead of the rows after the first
\* dupcount
AfterDuplicates_last(bucket, dupcount) == SubSeq(bucket, 1, Len(bucket) - dupcount)

\* transactions[dupcount:]
AfterDuplicates(bucket, dupcount) == SubSeq(bucket, dupcount + 1, Len(bucket))

\* dup_error_params, with hist, import and dupcount added
DupErrorParams(dup_sig, occ_in_hist, occ_in_import, dupcount) ==
    [date |-> dup_sig[1], amount |-> dup_sig[2], hist |-> occ_in_hist,
     import |-> occ_in_import, dupcount |-> dupcount]

RECURSIVE strip_duplicates(_, _, _, _)
\* strip_duplicates() over the buckets `keys`; acc carries the rows yielded so
\* far and self._errors
strip_duplicates(keys, ts, historical, acc) ==
    IF keys = <<>> THEN acc
    ELSE LET dup_sig == Head(keys)
             bucket == ImportBucket(ts, dup_sig)
             occ_in_import == Len(bucket)
             occ_in_hist == HistoricalCount(historical, dup_sig)
             dupcount == DupCount(occ_in_hist, occ_in_import)
             msg_fmt_str == IF occ_in_hist = 1 /\ occ_in_import = 1
                            THEN "single_dup_message"
                            ELSE "multiple_dup_message"
             reported ==
                 IF occ_in_hist # 0
                 THEN error_at_lines(acc.errors, LineNos(bucket), msg_fmt_str,
                          DupErrorParams(dup_sig, occ_in_hist, occ_in_import,
                                         dupcount))
                 ELSE acc.errors
         IN  strip_duplicates(Tail(keys), ts, historical,
                 [list |-> acc.list \o AfterDuplicates(bucket, dupcount),
                  errors |-> reported])

\* DuplicationProtectedPreparator.validate_global: the rows that pass, and
\* self._errors afterwards
validate_global(ts, table, errs) ==
    IF ts = <<>> THEN [list |-> <<>>, errors |-> errs]
    ELSE strip_duplicates(BucketKeys(ts), ts,
             InDateBounds(table, MinDate(ts), MaxDate(ts)),
             [list |-> <<>>, errors |-> errs])

(* --------------------------- parties and OGMs ------------------------- *)
\* the prefix tags of the payment classes, set in the configuration
OGM_INTERNAL_DEBT_PREFIX == "1"

OGM_RESERVATION_PREFIX == "2"

PrefixDigits == {OGM_INTERNAL_DEBT_PREFIX, OGM_RESERVATION_PREFIX}

\* the hidden token digests an OGM can carry next to the record id
Tokens == {"t1", "t2"}

MemberIds == {1, 2}

\* the record ids an incoming OGM can carry: 3 is the id of no party
RecordIds == MemberIds \cup {3}

\* a reference as read from the details column; well_formed says that it
\* has twelve digits and the right modulus
OGM(prefix_digit, record_id, token) ==
    [well_formed |-> TRUE, prefix_digit |-> prefix_digit,
     record_id |-> record_id, token |-> token]

MalformedOGM ==
    [well_formed |-> FALSE, prefix_digit |-> OGM_INTERNAL_DEBT_PREFIX,
     record_id |-> 1, token |-> "t1"]

\* a party: its primary key and its hidden token
ChoirMember(pk) == [pk |-> pk, token |-> "t1"]

ChoirMembers == {ChoirMember(pk) : pk \in MemberIds}

\* member.payment_tracking_no: the canonical OGM of the party
payment_tracking_no(member) ==
    OGM(OGM_INTERNAL_DEBT_PREFIX, member.pk, member.token)

\* {member.pk: member for member in member_qs}
MembersById(member_qs) ==
    [pk \in {m.pk : m \in member_qs} |->
        CHOOSE m \in member_qs : m.pk = pk]

\* no exception has left the preparator
NoException == "none"

\* no parser constructed
NoParser == [csv_file |-> "None"]

\* no pricing rule loaded
NoRule == [specification |-> <<>>]

NoRecord == [loaded |-> FALSE]

NoForm == [submitted |-> FALSE]

NoTracking == [encoded |-> <<>>]

(* ------------------------- preparator pipeline ------------------------ *)
\* a row as the bank parser leaves it: no ledger_entry yet
TransactionInfo(line_no, amount, timestamp, ogm) ==
    [line_no |-> line_no, amount |-> amount, timestamp |-> timestamp,
     ogm |-> ogm, ledger_entry |-> NoEntry]

\* t.ledger_entry = self.model(**kwargs), kwargs as the transfer preparator
\* builds them
WithLedgerEntry(t, member) ==
    [t EXCEPT !.ledger_entry =
        InternalPayment(t.line_no, t.amount, t.timestamp, member,
                        PAYMENT_NATURE_TRANSFER)]

\* _valid_transactions = None
NotReady == [ready |-> FALSE, list |-> <<>>]

\* mutant: a later run is handed what the run before let pass
indiv_transactions_passed ==
    IF valid_transactions.ready THEN valid_transactions.list ELSE transactions

\* indiv_transactions: the rows whose ledger_entry was built
indiv_transactions ==
    LET built(t) == t.ledger_entry # NoEntry IN SelectSeq(transactions, built)

\* the preparator with nothing to do
PreparatorIdle ==
    /\ pc = "idle"
    /\ transactions = <<>>
    /\ errors = <<>>
    /\ valid_transactions = NotReady
    /\ members_by_id = <<>>
    /\ cursor = 0
    /\ log = <<>>
    /\ raised = NoException

StoreEmpty ==
    /\ store_payments = <<>>
    /\ store_debts = <<>>
    /\ store_members = {}

\* the generator not started
GeneratorIdle == gen = make_payment_splits(<<>>, <<>>, FALSE, FALSE)

\* no resolver has prepared, no file is being parsed, no rule is evaluated
ResolverIdle == members_by_str = <<>>

ParserIdle == parser = NoParser

PricingIdle == rule = NoRule

LedgerIdle == record = NoRecord /\ form = NoForm /\ tracking = NoTracking

OthersIdle == ResolverIdle /\ ParserIdle /\ PricingIdle /\ LedgerIdle

(* ----------------------- inputs of the engine ------------------------- *)
Amounts == 1..MaxAmount
Times == 0..MaxTime

\* unmatched records, numbered in input order, ordered by timestamp
Ledger(n) ==
    {s \in [1..n -> [timestamp : Times, total_amount : Amounts]] :
        \A i \in 1..n : \A j \in i..n : s[i].timestamp <= s[j].timestamp}

Numbered(s) ==
    [i \in 1..Len(s) |->
        [id |-> i, timestamp |-> s[i].timestamp,
         total_amount |-> s[i].total_amount, matched_balance |-> 0]]

Ledgers == UNION {{Numbered(s) : s \in Ledger(n)} : n \in 0..MaxItems}

\* the carry-over example: one payment of 100 at T2 against debts of 30 at T0,
\* 40 at T1 and 50 at T2
CarryOverPayments == Numbered(<<[timestamp |-> 2, total_amount |-> 100]>>)

CarryOverDebts ==
    Numbered(<<[timestamp |-> 0, total_amount |-> 30],
               [timestamp |-> 1, total_amount |-> 40],
               [timestamp |-> 2, total_amount |-> 50]>>)

\* the runs: every pair of small ledgers, and the carry-over example
Runs == (Ledgers \X Ledgers) \cup {<<CarryOverPayments, CarryOverDebts>>}

(* ------------------ specification: the split generator ---------------- *)
InitSplits ==
    \E run \in Runs, prio \in BOOLEAN, only \in BOOLEAN :
        /\ gen = make_payment_splits(run[1], run[2], prio, only)
        /\ PreparatorIdle
        /\ StoreEmpty
        /\ OthersIdle

ExactMatch ==
    /\ gen.pc = "exact"
    /\ gen.examined < Len(gen.payment_list)
    /\ gen' = ExactStep(gen)
    /\ UNCHANGED <<prepVars, storeVars, otherVars>>

ExactMatchEnd ==
    /\ gen.pc = "exact"
    /\ gen.examined >= Len(gen.payment_list)
    /\ gen' = ExactEnd(gen)
    /\ UNCHANGED <<prepVars, storeVars, otherVars>>

Greedy ==
    /\ gen.pc = "greedy"
    /\ gen' = GreedyStep(gen)
    /\ UNCHANGED <<prepVars, storeVars, otherVars>>

NextSplits == ExactMatch \/ ExactMatchEnd \/ Greedy

SpecSplits == InitSplits /\ [][NextSplits]_vars

\* a generator that is resumed until it returns
SpecSplitsFair == SpecSplits /\ WF_vars(NextSplits)

(* ----------------- specification: the duplicate detector -------------- *)
\* the party all rows of the batch are bound to
BatchMember == 1

\* a row is dated on any day and carries the smallest or the largest amount
RowChoices == [timestamp : Times, amount : {1, MaxAmount}]

\* batches of rows that passed the per-row validation, numbered from line 2
Batches ==
    UNION {[1..n -> RowChoices] : n \in 0..MaxBatch}

BatchRows(b) ==
    [i \in 1..Len(b) |->
        WithLedgerEntry(
            TransactionInfo(i + 1, b[i].amount, b[i].timestamp,
                            payment_tracking_no(ChoirMember(BatchMember))),
            BatchMember)]

\* the stored payments: a table in a fixed order, since only counts are read
Histories ==
    UNION {{h \in [1..n -> RowChoices] :
               \A i \in 1..n : \A j \in i..n :
                   \/ h[i].timestamp < h[j].timestamp
                   \/ (h[i].timestamp = h[j].timestamp /\ h[i].amount <= h[j].amount)}
           : n \in 0..MaxHistory}

StoredPayments(h) ==
    [i \in 1..Len(h) |->
        InternalPayment(0 - i, h[i].amount, h[i].timestamp, BatchMember,
                        PAYMENT_NATURE_TRANSFER)]

InitDedup ==
    \E b \in Batches, h \in Histories :
        /\ pc = "validate_global"
        /\ transactions = BatchRows(b)
        /\ errors = <<>>
        /\ valid_transactions = NotReady
        /\ members_by_id = MembersById({ChoirMember(BatchMember)})
        /\ cursor = Len(b)
        /\ log = <<>>
        /\ raised = NoException
        /\ store_payments = StoredPayments(h)
        /\ store_debts = <<>>
        /\ store_members = ChoirMembers
        /\ GeneratorIdle
        /\ OthersIdle

\* self._valid_transactions = self.validate_global(indiv_transactions)
ValidateGlobal ==
    /\ pc = "validate_global"
    /\ LET out == validate_global(indiv_transactions, store_payments, errors) IN
          /\ valid_transactions' = [ready |-> TRUE, list |-> out.list]
          /\ errors' = out.errors
    /\ pc' = "review"
    /\ UNCHANGED <<gen, transactions, members_by_id, cursor, log, raised,
                   storeVars, otherVars>>

\* the detector run once more on the same batch, the history untouched
ValidateGlobalAgain ==
    /\ pc = "review"
    /\ LET out == validate_global(indiv_transactions, store_payments, errors) IN
          /\ valid_transactions' = [ready |-> TRUE, list |-> out.list]
          /\ errors' = out.errors
    /\ pc' = "again"
    /\ UNCHANGED <<gen, transactions, members_by_id, cursor, log, raised,
                   storeVars, otherVars>>

NextDedup == ValidateGlobal \/ ValidateGlobalAgain

SpecDedup == InitDedup /\ [][NextDedup]_vars

(* ------------------ specification: importing a file again ------------- *)
\* most times the survivors of a file are saved
MaxImports == 2

\* the survivors are saved (FinancialCSVUploadForm.submit_confirmation saves
\* one ledger entry per row that passed), and the same file is handed to a
\* new preparator
Persist ==
    /\ pc = "review"
    /\ Len(log) < MaxImports
    /\ store_payments' =
           store_payments \o [i \in 1..Len(valid_transactions.list) |->
                                 valid_transactions.list[i].ledger_entry]
    /\ log' = Append(log, [saved |-> Len(valid_transactions.list)])
    /\ errors' = <<>>
    /\ valid_transactions' = NotReady
    /\ pc' = "validate_global"
    /\ UNCHANGED <<gen, transactions, members_by_id, cursor, raised,
                   store_debts, store_members, otherVars>>

NextReimport == ValidateGlobal \/ Persist

SpecReimport == InitDedup /\ [][NextReimport]_vars

(* -------------------------- overpayment review ------------------------ *)
RECURSIVE RunSplits(_)
\* the generator run to its return, as sum() drains it
RunSplits(g) == IF g.pc = "done" THEN g ELSE RunSplits(GenStep(g))

RECURSIVE SortedByTimestamp(_)
\* sorted(records, key=lambda p: p.timestamp): stable, the earliest first
SortedByTimestamp(records) ==
    IF records = <<>> THEN <<>>
    ELSE LET least == CHOOSE i \in 1..Len(records) :
                 /\ \A j \in 1..Len(records) :
                       records[i].timestamp <= records[j].timestamp
                 /\ \A j \in 1..(i - 1) :
                       records[j].timestamp > records[i].timestamp
         IN  <<records[least]>> \o SortedByTimestamp(RemoveAt(records, least))

\* a stored debt, with the balances the queryset annotates
InternalDebtItem(pk, member, timestamp, total_amount, matched_balance) ==
    [id |-> pk, member |-> member, timestamp |-> timestamp,
     total_amount |-> total_amount, matched_balance |-> matched_balance]

\* fully_matched_fromdb: total_amount <= matched_balance
fully_matched_fromdb(r) == r.total_amount <= r.matched_balance

\* InternalDebtItem.objects.filter(member_id__in=...).with_payments()
\*     .unpaid().order_by('timestamp')
debt_qs(table, by_id) ==
    LET wanted(d) == d.member \in DOMAIN by_id /\ ~fully_matched_fromdb(d)
    IN  SortedByTimestamp(SelectSeq(table, wanted))

RECURSIVE MemberKeys(_)
\* the keys of trans_buckets, in the order a defaultdict gets them
MemberKeys(ts) ==
    IF ts = <<>> THEN <<>>
    ELSE LET key == Head(ts).ledger_entry.member
             others(t) == t.ledger_entry.member # key
         IN  <<key>> \o MemberKeys(SelectSeq(Tail(ts), others))

\* trans_buckets[member_id]
TransBucket(ts, key) ==
    LET mine(t) == t.ledger_entry.member = key IN SelectSeq(ts, mine)

\* debts_for(debt_key): self._debt_buckets[debt_key]
debts_for(table, by_id, debt_key) ==
    LET mine(d) == d.member = debt_key IN SelectSeq(debt_qs(table, by_id), mine)

\* the payments of a bucket as review hands them to make_splits
BucketPayments(bucket) ==
    SortedByTimestamp([i \in 1..Len(bucket) |-> bucket[i].ledger_entry])

\* make_splits(payments, debts), drained: the flags keep their defaults
make_splits(payments, debts) ==
    RunSplits(make_payment_splits(payments, debts, TRUE, FALSE)).splits

\* mutant: credit that is used up exactly is reported as well
Overpaid_or_used_up(total_used, total_credit) == total_used <= total_credit

\* if total_used < total_credit
Overpaid(total_used, total_credit) == total_used < total_credit

overpayment_error_params(debt_key, total_used, total_credit) ==
    [member |-> debt_key, total_used |-> total_used,
     total_credit |-> total_credit]

RECURSIVE review(_, _, _, _, _)
\* CreditApportionmentMixin.review over the buckets keys: self._errors after
review(keys, ts, table, by_id, errs) ==
    IF keys = <<>> THEN errs
    ELSE LET key == Head(keys)
             bucket == TransBucket(ts, key)
             debts == debts_for(table, by_id, key)
             payments == BucketPayments(bucket)
             total_used == SumAmounts(make_splits(payments, debts))
             total_credit == SumTotals(payments)
             reported ==
                 IF Overpaid(total_used, total_credit)
                 THEN error_at_lines(errs, LineNos(bucket),
                          "overpayment_fmt_string",
                          overpayment_error_params(key, total_used,
                                                   total_credit))
                 ELSE errs
         IN  review(Tail(keys), ts, table, by_id, reported)

(* ------------------ specification: the overpayment review ------------- *)
ReviewRowChoices == [member : MemberIds, timestamp : Times, amount : Amounts]

\* rows that passed the per-row validation, each bound to its party
ReviewBatches == UNION {[1..n -> ReviewRowChoices] : n \in 0..MaxRows}

ReviewRows(b) ==
    [i \in 1..Len(b) |->
        WithLedgerEntry(
            TransactionInfo(i + 1, b[i].amount, b[i].timestamp,
                            payment_tracking_no(ChoirMember(b[i].member))),
            b[i].member)]

\* the debts on record are owed by one party and no split matches them yet
DebtChoices ==
    [member : {BatchMember}, timestamp : Times, total_amount : Amounts,
     matched_balance : {0}]

\* the debt table, kept in the order of its Meta.ordering
DebtTables ==
    UNION {{d \in [1..n -> DebtChoices] :
               \A i \in 1..n : \A j \in i..n :
                   d[i].timestamp <= d[j].timestamp}
           : n \in 0..MaxDebts}

StoredDebts(d) ==
    [i \in 1..Len(d) |->
        InternalDebtItem(i, d[i].member, d[i].timestamp, d[i].total_amount,
                         d[i].matched_balance)]

\* the preparator as validate_global leaves it when the history is empty
InitReview ==
    \E b \in ReviewBatches, d \in DebtTables :
        /\ pc = "review"
        /\ transactions = ReviewRows(b)
        /\ errors = <<>>
        /\ valid_transactions =
              [ready |-> TRUE,
               list |-> validate_global(ReviewRows(b), <<>>, <<>>).list]
        /\ members_by_id =
              MembersById({ChoirMember(b[i].member) : i \in 1..Len(b)})
        /\ cursor = Len(b)
        /\ log = <<>>
        /\ raised = NoException
        /\ store_payments = <<>>
        /\ store_debts = StoredDebts(d)
        /\ store_members = ChoirMembers
        /\ GeneratorIdle
        /\ OthersIdle

\* self.review()
Review ==
    /\ pc = "review"
    /\ errors' = review(MemberKeys(valid_transactions.list),
                        valid_transactions.list, store_debts, members_by_id,
                        errors)
    /\ pc' = "done"
    /\ UNCHANGED <<gen, transactions, valid_transactions, members_by_id,
                   cursor, log, raised, storeVars, otherVars>>

NextReview == Review

SpecReview == InitReview /\ [][NextReview]_vars

(* ------------------------- transfer resolution ------------------------ *)
\* TransferRecordPreparator.ogm_applies: False when parse_ogm raises
\* ValueError, else whether the leading digit is the preparator's
ogm_applies(prefix_digit, ogm) ==
    IF ~ogm.well_formed THEN FALSE ELSE prefix_digit = ogm.prefix_digit

\* the record id inside an internal-debt OGM
parse_internal_debt_ogm(ogm) == ogm.record_id

\* ChoirMember.objects.by_payment_tracking_nos(ogms, validate_unseen=True):
\* the parties the record ids point at, and the OGMs that point at none
by_payment_tracking_nos(members, ogms) ==
    [member_qs |-> {m \in members : \E o \in ogms :
                       parse_internal_debt_ogm(o) = m.pk},
     unseen |-> {o \in ogms : \A m \in members :
                    parse_internal_debt_ogm(o) # m.pk}]

\* DebtTransferPaymentPreparator.prepare: self._members_by_id and the record
\* handed to logger.debug
prepare(ts, members) ==
    LET ogms_to_query ==
            {ts[i].ogm : i \in {j \in 1..Len(ts) :
                ogm_applies(OGM_INTERNAL_DEBT_PREFIX, ts[j].ogm)}}
        found == by_payment_tracking_nos(members, ogms_to_query)
    IN  [members_by_id |-> MembersById(found.member_qs),
         logged |-> [level |-> "debug", unseen |-> found.unseen]]

\* mutant: the party is bound on the record id alone
model_kwargs_for_transaction_by_pk(t, by_id, errs) ==
    LET none == [outcome |-> "None", member |-> 0, errors |-> errs]
        pk == parse_internal_debt_ogm(t.ogm)
    IN  IF ~ogm_applies(OGM_INTERNAL_DEBT_PREFIX, t.ogm) THEN none
        ELSE IF t.amount < 0
        THEN [none EXCEPT !.errors =
                 error_at_lines(errs, <<t.line_no>>, "Payment amount is negative",
                                [amount |-> t.amount])]
        ELSE IF pk \notin DOMAIN by_id
        THEN [none EXCEPT !.outcome = "KeyError"]
        ELSE [none EXCEPT !.outcome = "kwargs", !.member = pk]

\* DebtTransferPaymentPreparator.model_kwargs_for_transaction, through the
\* classes it defers to: what it returns or raises, and self._errors after
model_kwargs_for_transaction(t, by_id, errs) ==
    LET none == [outcome |-> "None", member |-> 0, errors |-> errs]
        pk == parse_internal_debt_ogm(t.ogm)
    IN  IF ~ogm_applies(OGM_INTERNAL_DEBT_PREFIX, t.ogm) THEN none
        ELSE IF t.amount < 0
        THEN [none EXCEPT !.errors =
                 error_at_lines(errs, <<t.line_no>>, "Payment amount is negative",
                                [amount |-> t.amount])]
        ELSE IF pk \notin DOMAIN by_id
        THEN [none EXCEPT !.outcome = "KeyError"]
        ELSE IF t.ogm # payment_tracking_no(by_id[pk]) THEN none
        ELSE [none EXCEPT !.outcome = "kwargs", !.member = pk]

(* ---------------- specification: the transfer preparator -------------- *)
\* the references a bank row can carry
IncomingOGMs ==
    {OGM(d, r, k) : d \in PrefixDigits, r \in RecordIds, k \in Tokens}
        \cup {MalformedOGM}

TransferAmounts == Amounts \cup {-1}

TransferRowChoices == [ogm : IncomingOGMs, amount : TransferAmounts]

TransferBatches == UNION {[1..n -> TransferRowChoices] : n \in 0..MaxRows}

\* the rows as the parser hands them over, all dated on the first day
TransferRows(b) ==
    [i \in 1..Len(b) |-> TransactionInfo(i + 1, b[i].amount, 0, b[i].ogm)]

InitTransfer ==
    \E b \in TransferBatches :
        /\ pc = "prepare"
        /\ transactions = TransferRows(b)
        /\ errors = <<>>
        /\ valid_transactions = NotReady
        /\ members_by_id = <<>>
        /\ cursor = 0
        /\ log = <<>>
        /\ raised = NoException
        /\ store_payments = <<>>
        /\ store_debts = <<>>
        /\ store_members = ChoirMembers
        /\ GeneratorIdle
        /\ OthersIdle

\* self.prepare()
Prepare ==
    /\ pc = "prepare"
    /\ LET out == prepare(transactions, store_members) IN
          /\ members_by_id' = out.members_by_id
          /\ log' = Append(log, out.logged)
    /\ pc' = IF transactions = <<>> THEN "validate_global" ELSE "valid"
    /\ UNCHANGED <<gen, transactions, errors, valid_transactions, cursor,
                   raised, storeVars, otherVars>>

\* valid(t) for the next row of self.transactions
Valid ==
    /\ pc = "valid"
    /\ LET t == transactions[cursor + 1]
           out == model_kwargs_for_transaction(t, members_by_id, errors)
       IN  IF out.outcome = "KeyError"
           THEN /\ raised' = "KeyError"
                /\ pc' = "raised"
                /\ UNCHANGED <<transactions, errors, cursor>>
           ELSE /\ transactions' =
                      IF out.outcome = "kwargs"
                      THEN [transactions EXCEPT
                               ![cursor + 1] = WithLedgerEntry(t, out.member)]
                      ELSE transactions
                /\ errors' = out.errors
                /\ cursor' = cursor + 1
                /\ pc' = IF cursor + 1 = Len(transactions)
                         THEN "validate_global" ELSE "valid"
                /\ UNCHANGED raised
    /\ UNCHANGED <<gen, valid_transactions, members_by_id, log, storeVars,
                   otherVars>>

NextTransfer == Prepare \/ Valid

SpecTransfer == InitTransfer /\ [][NextTransfer]_vars

(* --------------- specification: reading valid_transactions ------------ *)
\* most reads of the property after the first
MaxReads == 2

\* the reads made so far after the first one
Reads == Cardinality({i \in 1..Len(log) : log[i].level = "read"})

\* the first read of valid_transactions on a DebtTransferPaymentPreparator is
\* about to start; the store may hold a payment alike a row of the file and a
\* debt of the party
InitPipeline ==
    \E b \in TransferBatches, h \in {<<>>, <<[timestamp |-> 0, amount |-> 1]>>},
       d \in DebtTables :
        /\ pc = "prepare"
        /\ transactions = TransferRows(b)
        /\ errors = <<>>
        /\ valid_transactions = NotReady
        /\ members_by_id = <<>>
        /\ cursor = 0
        /\ log = <<>>
        /\ raised = NoException
        /\ store_payments = StoredPayments(h)
        /\ store_debts = StoredDebts(d)
        /\ store_members = ChoirMembers
        /\ GeneratorIdle
        /\ OthersIdle

\* a read of valid_transactions after the first one has returned or raised:
\* `if self._valid_transactions is None` decides whether the steps run
Read ==
    /\ pc \in {"done", "raised"}
    /\ Reads < MaxReads
    /\ IF valid_transactions.ready
       THEN /\ log' = Append(log, [level |-> "read", ran |-> FALSE,
                                   returned |-> valid_transactions.list])
            /\ UNCHANGED <<pc, cursor, raised>>
       ELSE /\ log' = Append(log, [level |-> "read", ran |-> TRUE,
                                   returned |-> <<>>])
            /\ pc' = "prepare"
            /\ cursor' = 0
            /\ raised' = NoException
    /\ UNCHANGED <<gen, transactions, errors, valid_transactions,
                   members_by_id, storeVars, otherVars>>

NextPipeline == Prepare \/ Valid \/ ValidateGlobal \/ Review \/ Read

SpecPipeline == InitPipeline /\ [][NextPipeline]_vars

(* ------------------------ email and name resolver --------------------- *)
\* a string of the member column: its letters without their case, the case
\* it is written in, and whether it holds an '@'
Str(folded, written, at) == [folded |-> folded, written |-> written, at |-> at]

\* str.casefold()
casefold(str) == [str EXCEPT !.written = "lower"]

\* a party with the name and the address of its user record
Party(pk, full_name, email) ==
    [pk |-> pk, token |-> "t1", full_name |-> full_name, email |-> email]

RECURSIVE Listed(_)
\* the elements of a set in the order an iteration visits them
Listed(set) ==
    IF set = {} THEN <<>>
    ELSE LET x == CHOOSE y \in set : TRUE IN <<x>> \o Listed(set \ {x})

\* ChoirMember.objects.by_emails(emails, validate_unseen=True): addresses
\* are compared as they are written
by_emails(members, emails) ==
    [member_qs |-> {m \in members : m.email \in emails},
     unseen |-> {e \in emails : \A m \in members : m.email # e}]

\* ChoirMember.objects.by_full_names(names, validate_unseen=True,
\* validate_nodups=True): names are compared without their case
by_full_names(members, names) ==
    LET named(n) == {m \in members : casefold(m.full_name) = casefold(n)}
    IN  [member_qs |-> {m \in members : \E n \in names : m \in named(n)},
         unseen |-> {n \in names : named(n) = {}},
         duplicates |-> {n \in names : Cardinality(named(n)) > 1}]

\* the keys of email_index and of name_index
IndexKeys(ts, use_email) ==
    {IF use_email THEN ts[i].member_str ELSE casefold(ts[i].member_str) :
        i \in {j \in 1..Len(ts) : ts[j].member_str.at = use_email}}

\* email_index[key] or name_index[key]: the rows filed under the key
IndexRows(ts, use_email, key) ==
    LET filed(t) ==
            /\ t.member_str.at = use_email
            /\ key = IF use_email THEN t.member_str ELSE casefold(t.member_str)
    IN  SelectSeq(ts, filed)

RECURSIVE report_keys(_, _, _, _, _)
\* one error per key of the list, at the lines of the rows filed under it
report_keys(keys, ts, use_email, msg, errs) ==
    IF keys = <<>> THEN errs
    ELSE report_keys(Tail(keys), ts, use_email, msg,
             error_at_lines(errs,
                 LineNos(IndexRows(ts, use_email,
                                   IF use_email THEN Head(keys)
                                   ELSE casefold(Head(keys)))),
                 msg, [member_str |-> Head(keys)]))

\* FetchMembersMixin.prepare: self._errors, self._members_by_str and
\* self._members_by_id afterwards
fetch_members(ts, members, errs) ==
    LET by_email == by_emails(members, IndexKeys(ts, TRUE))
        by_name == by_full_names(members, IndexKeys(ts, FALSE))
        errs1 == report_keys(Listed(by_email.unseen), ts, TRUE,
                             "does not designate a registered member", errs)
        errs2 == report_keys(Listed(by_name.unseen), ts, FALSE,
                             "does not designate a registered member", errs1)
        errs3 == report_keys(Listed(by_name.duplicates), ts, FALSE,
                             "designates multiple registered members", errs2)
        named == {m \in by_name.member_qs :
                     casefold(m.full_name) \notin by_name.duplicates}
        kept == by_email.member_qs \cup named
        strs == {m.email : m \in by_email.member_qs} \cup
                {m.full_name : m \in named}
    IN  [errors |-> errs3,
         members_by_str |->
            [str \in strs |->
                IF \E m \in named : m.full_name = str
                THEN CHOOSE m \in named : m.full_name = str
                ELSE CHOOSE m \in by_email.member_qs : m.email = str],
         members_by_id |-> MembersById(kept)]

\* FetchMembersMixin.model_kwargs_for_transaction: the kwargs or None, and
\* self._errors afterwards
member_kwargs_for_transaction(t, by_str, errs) ==
    LET none == [outcome |-> "None", member |-> 0, errors |-> errs]
    IN  IF t.amount < 0
        THEN [none EXCEPT !.errors =
                 error_at_lines(errs, <<t.line_no>>, "Payment amount is negative",
                                [amount |-> t.amount])]
        ELSE IF t.member_str \notin DOMAIN by_str THEN none
        ELSE [none EXCEPT !.outcome = "kwargs",
                          !.member = by_str[t.member_str].pk]

(* ------------- specification: the email and name resolver ------------ *)
\* what the member column can hold: a name or an address, each written in
\* lower case or capitalised
MemberStrs ==
    {Str(f, w, FALSE) : f \in {"jan peeters", "piet"}, w \in {"lower", "Title"}}
        \cup
    {Str(f, w, TRUE) : f \in {"jan@x.be", "piet@x.be"}, w \in {"lower", "Title"}}

\* the parties that can be on record: two that differ in the case of their
\* name only
Registered ==
    {Party(1, Str("jan peeters", "Title", FALSE), Str("jan@x.be", "lower", TRUE)),
     Party(2, Str("jan peeters", "lower", FALSE), Str("jp@x.be", "lower", TRUE))}

MemberRowChoices == [member_str : MemberStrs, amount : TransferAmounts]

MemberBatches == UNION {[1..n -> MemberRowChoices] : n \in 0..MaxRows}

\* MemberTransactionParser.TransactionInfo
MemberTransactionInfo(line_no, amount, timestamp, member_str) ==
    [line_no |-> line_no, amount |-> amount, timestamp |-> timestamp,
     member_str |-> member_str, ledger_entry |-> NoEntry]

MemberRows(b) ==
    [i \in 1..Len(b) |->
        MemberTransactionInfo(i + 1, b[i].amount, 0, b[i].member_str)]

\* t.ledger_entry = self.model(**kwargs), kwargs as the resolver builds them
WithMemberEntry(t, member) ==
    [t EXCEPT !.ledger_entry =
        InternalPayment(t.line_no, t.amount, t.timestamp, member, "cash")]

InitResolver ==
    \E b \in MemberBatches, registered \in SUBSET Registered :
        /\ pc = "prepare"
        /\ transactions = MemberRows(b)
        /\ errors = <<>>
        /\ valid_transactions = NotReady
        /\ members_by_id = <<>>
        /\ members_by_str = <<>>
        /\ cursor = 0
        /\ log = <<>>
        /\ raised = NoException
        /\ store_payments = <<>>
        /\ store_debts = <<>>
        /\ store_members = registered
        /\ GeneratorIdle
        /\ ParserIdle
        /\ PricingIdle
        /\ LedgerIdle

\* self.prepare()
FetchMembers ==
    /\ pc = "prepare"
    /\ LET out == fetch_members(transactions, store_members, errors) IN
          /\ errors' = out.errors
          /\ members_by_str' = out.members_by_str
          /\ members_by_id' = out.members_by_id
    /\ pc' = IF transactions = <<>> THEN "validate_global" ELSE "valid"
    /\ UNCHANGED <<gen, transactions, valid_transactions, cursor, log, raised,
                   storeVars, parserVars, pricingVars, ledgerVars>>

\* valid(t) for the next row of self.transactions
ValidMember ==
    /\ pc = "valid"
    /\ LET t == transactions[cursor + 1]
           out == member_kwargs_for_transaction(t, members_by_str, errors)
       IN  /\ transactions' =
                 IF out.outcome = "kwargs"
                 THEN [transactions EXCEPT
                          ![cursor + 1] = WithMemberEntry(t, out.member)]
                 ELSE transactions
           /\ errors' = out.errors
    /\ cursor' = cursor + 1
    /\ pc' = IF cursor + 1 = Len(transactions) THEN "validate_global" ELSE "valid"
    /\ UNCHANGED <<gen, valid_transactions, members_by_id, log, raised,
                   storeVars, otherVars>>

NextResolver == FetchMembers \/ ValidMember

SpecResolver == InitResolver /\ [][NextResolver]_vars

(* ------------------------------ CSV parsers --------------------------- *)
\* FinancialCSVParser.error: the newest error comes first
error(errs, line_no, msg, param) ==
    <<[line_no |-> line_no, msg |-> msg, param |-> param]>> \o errs

\* Decimal(amount_str.replace(',', '.')).quantize(Decimal('.01')), in cents;
\* -1 stands for the exception Decimal raises
Decimal(amount_str) ==
    CASE amount_str = "1,50" -> 150
      [] amount_str = "2.00" -> 200
      [] OTHER -> -1

\* datetime.datetime.strptime(date_str, '%d/%m/%Y').date(), or "ValueError"
strptime(date_str) ==
    CASE date_str = "01/02/2020" -> "2020-02-01"
      [] date_str = "15/03/2020" -> "2020-03-15"
      [] OTHER -> "ValueError"

\* what FORTIS_SEARCH_PATTERN and payments.parse_ogm make of a details text:
\* no match, a match that does not parse, or the canonical OGM
get_ogm_outcome(details) ==
    CASE details = "MEDEDELING : +++100/0000/00101+++" -> "100000000101"
      [] details = "MEDEDELING : +++100/0000/00199+++" -> "ValueError"
      [] OTHER -> "None"

\* the classes a parser can be of
FinancialCSVParser == "FinancialCSVParser"

MemberTransactionParser == "MemberTransactionParser"

FortisCSVParser == "FortisCSVParser"

amount_column_name(variant) ==
    IF variant = FortisCSVParser THEN "Bedrag" ELSE "bedrag"

date_column_name(variant) ==
    IF variant = FortisCSVParser THEN "Uitvoeringsdatum" ELSE "datum"

\* the column a subclass reads next to the amount and the date
extra_column_name(variant) ==
    CASE variant = MemberTransactionParser -> "lid"
      [] variant = FortisCSVParser -> "Details"
      [] OTHER -> ""

\* what parse_row_to_dict returns or raises, and self._errors afterwards
Returned(outcome, col, info, errs) ==
    [outcome |-> outcome, col |-> col, info |-> info, errors |-> errs]

NoInfo == [line_no |-> 0]

\* FinancialCSVParser.parse_row_to_dict
parse_row_to_dict(variant, header, line_no, row, errs) ==
    IF amount_column_name(variant) \notin header
    THEN Returned("KeyError", amount_column_name(variant), NoInfo, errs)
    ELSE LET amount == Decimal(row.amount)
             errs1 == IF amount = -1
                      THEN error(errs, line_no, "Invalid amount", row.amount)
                      ELSE errs
             dated == date_column_name(variant) \in header /\ row.date # ""
             timestamp == IF dated THEN strptime(row.date) ELSE "now"
             errs2 == IF timestamp = "ValueError"
                      THEN error(errs1, line_no, "Invalid date", row.date)
                      ELSE errs1
         IN  IF timestamp = "ValueError" \/ amount = -1
             THEN Returned("None", "", NoInfo, errs2)
             ELSE Returned("dict", "",
                      [line_no |-> line_no, amount |-> amount,
                       timestamp |-> timestamp], errs2)

\* mutant: a reference that does not parse is skipped like a missing one
bank_parse_row_to_dict_quiet(header, line_no, row, errs) ==
    LET parsed == parse_row_to_dict(FortisCSVParser, header, line_no, row, errs)
    IN  IF parsed.outcome = "KeyError" THEN parsed
        ELSE IF parsed.outcome = "None"
        THEN Returned("TypeError", "", NoInfo, parsed.errors)
        ELSE IF "Details" \notin header
        THEN Returned("KeyError", "Details", NoInfo, parsed.errors)
        ELSE IF get_ogm_outcome(row.extra) \in {"None", "ValueError"}
        THEN Returned("None", "", NoInfo, parsed.errors)
        ELSE parsed

\* MemberTransactionParser.parse_row_to_dict: the member column is read
\* before the item of parsed is assigned
member_parse_row_to_dict(header, line_no, row, errs) ==
    LET parsed == parse_row_to_dict(MemberTransactionParser, header, line_no,
                                    row, errs)
    IN  IF parsed.outcome = "KeyError" THEN parsed
        ELSE IF "lid" \notin header
        THEN Returned("KeyError", "lid", NoInfo, parsed.errors)
        ELSE IF parsed.outcome = "None"
        THEN Returned("TypeError", "", NoInfo, parsed.errors)
        ELSE Returned("dict", "",
                 [line_no |-> line_no, amount |-> parsed.info.amount,
                  timestamp |-> parsed.info.timestamp, member_str |-> row.extra],
                 parsed.errors)

\* BankCSVParser.parse_row_to_dict over PaymentCSVParser.parse_row_to_dict,
\* with FortisCSVParser.get_ogm
bank_parse_row_to_dict(header, line_no, row, errs) ==
    LET parsed == parse_row_to_dict(FortisCSVParser, header, line_no, row, errs)
        ogm == get_ogm_outcome(row.extra)
    IN  IF parsed.outcome = "KeyError" THEN parsed
        ELSE IF parsed.outcome = "None"
        THEN Returned("TypeError", "", NoInfo, parsed.errors)
        ELSE IF "Details" \notin header
        THEN Returned("KeyError", "Details", NoInfo, parsed.errors)
        ELSE IF ogm = "None" THEN Returned("None", "", NoInfo, parsed.errors)
        ELSE IF ogm = "ValueError"
        THEN Returned("None", "", NoInfo,
                 error(parsed.errors, line_no, "Illegal OGM string", row.extra))
        ELSE Returned("dict", "",
                 [line_no |-> line_no, amount |-> parsed.info.amount,
                  timestamp |-> parsed.info.timestamp, nature |-> "transfer",
                  ogm |-> ogm],
                 parsed.errors)

\* parse_row of the parser's class
parse_row(variant, header, line_no, row, errs) ==
    CASE variant = MemberTransactionParser ->
             member_parse_row_to_dict(header, line_no, row, errs)
      [] variant = FortisCSVParser ->
             bank_parse_row_to_dict(header, line_no, row, errs)
      [] OTHER -> parse_row_to_dict(variant, header, line_no, row, errs)

RECURSIVE read_rows(_, _, _, _)
\* list(gen()): the rows from the i-th on, until one raises
read_rows(p, i, objects, errs) ==
    IF i > Len(p.csv_file.rows)
    THEN [outcome |-> "list", col |-> "", objects |-> objects, errors |-> errs,
          consumed |-> i - 1]
    ELSE LET t == parse_row(p.variant, p.csv_file.header, i + 1,
                            p.csv_file.rows[i], errs)
         IN  IF t.outcome \in {"KeyError", "TypeError"}
             THEN [outcome |-> t.outcome, col |-> t.col, objects |-> objects,
                   errors |-> t.errors, consumed |-> i]
             ELSE read_rows(p, i + 1,
                      IF t.outcome = "dict" THEN Append(objects, t.info)
                      ELSE objects,
                      t.errors)

\* FinancialCSVParser.__init__
NewParser(variant, csv_file) ==
    [variant |-> variant, csv_file |-> csv_file, file_read |-> FALSE,
     errors |-> <<>>, objects |-> <<>>, consumed |-> 0, raised |-> NoException]

\* FinancialCSVParser._read
read(p) ==
    LET out == read_rows(p, 1, <<>>, p.errors) IN
    CASE out.outcome = "list" ->
             [p EXCEPT !.objects = out.objects, !.errors = out.errors,
                       !.consumed = out.consumed, !.file_read = TRUE]
      [] out.outcome = "KeyError" ->
             [p EXCEPT !.errors = error(out.errors, 0, "Missing column", out.col),
                       !.consumed = out.consumed, !.file_read = TRUE]
      [] OTHER ->
             [p EXCEPT !.errors = out.errors, !.consumed = out.consumed,
                       !.raised = out.outcome]

(* -------------------- specification: the CSV parsers ------------------ *)
ParserVariants == {FinancialCSVParser, MemberTransactionParser, FortisCSVParser}

\* the columns a file of the variant is expected to have
Columns(variant) ==
    {amount_column_name(variant), date_column_name(variant),
     extra_column_name(variant)} \ {""}

AmountCells == {"1,50", "abc"}

DateCells == {"01/02/2020", "2020-02-01", ""}

ExtraCells(variant) ==
    CASE variant = MemberTransactionParser -> {"jan peeters"}
      [] variant = FortisCSVParser ->
             {"MEDEDELING : +++100/0000/00101+++",
              "MEDEDELING : +++100/0000/00199+++", "huur februari"}
      [] OTHER -> {""}

CsvRows(variant) ==
    [amount : AmountCells, date : DateCells, extra : ExtraCells(variant)]

\* a file: the columns of its header line and its data rows
CsvFiles(variant) ==
    {[header |-> h, rows |-> r] :
        h \in SUBSET Columns(variant),
        r \in UNION {[1..n -> CsvRows(variant)] : n \in 0..MaxRows}}

InitParser ==
    \E variant \in ParserVariants :
        \E csv_file \in CsvFiles(variant) :
            /\ parser = NewParser(variant, csv_file)
            /\ PreparatorIdle
            /\ StoreEmpty
            /\ GeneratorIdle
            /\ ResolverIdle
            /\ PricingIdle
            /\ LedgerIdle

\* the first read of parser.errors or parser.parsed_data
ReadFile ==
    /\ parser # NoParser
    /\ ~parser.file_read
    /\ parser.raised = NoException
    /\ parser' = read(parser)
    /\ UNCHANGED <<gen, prepVars, storeVars, resolverVars, pricingVars, ledgerVars>>

NextParser == ReadFile

SpecParser == InitParser /\ [][NextParser]_vars

(* ------------------------- activity options --------------------------- *)
\* Strings of the pricing language are sequences of tokens: "/", ",", " ",
\* the brackets, the arrow, slugs and prices.

\* str.rfind: the last place of tok in s, 0 (Python's -1) when there is none
rfind(s, tok) ==
    LET at == {i \in 1..Len(s) : s[i] = tok}
    IN  IF at = {} THEN 0 ELSE CHOOSE i \in at : \A j \in at : j <= i

RECURSIVE strip(_)
\* str.strip
strip(s) ==
    IF s = <<>> THEN s
    ELSE IF Head(s) = " " THEN strip(Tail(s))
    ELSE IF s[Len(s)] = " " THEN strip(SubSeq(s, 1, Len(s) - 1))
    ELSE s

RECURSIVE split(_, _)
\* str.split(sep)
split(s, sep) ==
    LET at == {i \in 1..Len(s) : s[i] = sep}
    IN  IF at = {} THEN <<s>>
        ELSE LET first == CHOOSE i \in at : \A j \in at : i <= j
             IN  <<SubSeq(s, 1, first - 1)>>
                     \o split(SubSeq(s, first + 1, Len(s)), sep)

\* the one element of a singleton: { e(x) : x \in {v} } works v out once
Only(S) == CHOOSE x \in S : TRUE

\* the parent of a root, and what is not an ActivityOption
NoOption == [is_option |-> FALSE]

\* a primary key that is None
NoPk == 0

ActivityOption(slug, parent, bound, act_pk) ==
    [slug |-> slug, parent |-> parent, bound |-> bound, act_pk |-> act_pk]

RECURSIVE option_eq(_, _)
\* ActivityOption.__eq__ (self is an option)
option_eq(self, other) ==
    IF other = NoOption THEN FALSE
    ELSE /\ self.bound = other.bound
         /\ self.act_pk = other.act_pk
         /\ self.slug = other.slug
         /\ IF self.parent = NoOption THEN other.parent = NoOption
            ELSE option_eq(self.parent, other.parent)

RECURSIVE option_contains_or_self(_, _)
\* mutant: an option is also found in itself
option_contains_or_self(self, item) ==
    IF item = NoOption THEN FALSE
    ELSE option_eq(self, item) \/ option_contains_or_self(self, item.parent)

RECURSIVE option_contains(_, _)
\* ActivityOption.__contains__: item in self
option_contains(self, item) ==
    IF item = NoOption THEN FALSE
    ELSE option_eq(self, item.parent) \/ option_contains(self, item.parent)

RECURSIVE contains_calls(_, _)
\* the calls of __contains__ that item in self makes
contains_calls(self, item) ==
    IF item = NoOption THEN 1
    ELSE IF option_eq(self, item.parent) THEN 1
    ELSE 1 + contains_calls(self, item.parent)

\* ActivityOptionRegistry.__init__; seen keeps the order of insertion
ActivityOptionRegistry(focus_pk) ==
    [focus_pk |-> focus_pk, seen |-> <<>>, children |-> <<>>]

SeenAt(seen, path, act_ref) ==
    {i \in 1..Len(seen) : seen[i].path = path /\ seen[i].act_ref = act_ref}

\* self.seen[(path, act_ref)] = opt
SeenStore(seen, path, act_ref, opt) ==
    LET entry == [path |-> path, act_ref |-> act_ref, opt |-> opt]
    IN  IF SeenAt(seen, path, act_ref) = {} THEN Append(seen, entry)
        ELSE [i \in 1..Len(seen) |->
                 IF i \in SeenAt(seen, path, act_ref) THEN entry ELSE seen[i]]

\* what register and ensure_registered return or raise, and the registry after
RegisterResult(outcome, opt, registry) ==
    [outcome |-> outcome, opt |-> opt, registry |-> registry]

\* the end of register: the constructor with its assertion, then the links
construct(registry, path, path_base, parent, act_ref) ==
    LET ref == IF act_ref = NoPk THEN registry.focus_pk ELSE act_ref
        opt == ActivityOption(path_base, parent, ref # NoPk, registry.focus_pk)
    IN  IF ~(\/ parent = NoOption /\ path_base = <<>>
             \/ parent # NoOption /\ path_base # <<>>)
        THEN RegisterResult("AssertionError", NoOption, registry)
        ELSE RegisterResult("opt", opt,
                 [registry EXCEPT
                     !.children = IF parent # NoOption
                                  THEN Append(@, [parent |-> parent, child |-> opt])
                                  ELSE @,
                     !.seen = SeenStore(@, path, ref, opt)])

RECURSIVE register(_, _, _)
RECURSIVE ensure_registered(_, _, _)
\* ActivityOptionRegistry.register
register(registry, path, act_ref) ==
    IF path # <<>> /\ path # <<"/">>
    THEN LET cutoff == rfind(path, "/") IN
         IF cutoff = 0 THEN RegisterResult("ValueError", NoOption, registry)
         ELSE Only({IF up.outcome # "opt" THEN up
                    ELSE construct(up.registry, path,
                             SubSeq(path, cutoff + 1, Len(path)), up.opt, act_ref) :
                    up \in {ensure_registered(registry,
                                SubSeq(path, 1, cutoff - 1), act_ref)}})
    ELSE construct(registry, path, <<>>, NoOption, act_ref)

\* ActivityOptionRegistry.ensure_registered
ensure_registered(registry, path, act_ref) ==
    LET at == SeenAt(registry.seen, path, act_ref)
    IN  IF at # {}
        THEN RegisterResult("opt", registry.seen[CHOOSE i \in at : TRUE].opt, registry)
        ELSE register(registry, path, act_ref)

(* ---------------------------- pricing rules --------------------------- *)
PricingData(price, comment, filter_slug) ==
    [price |-> price, comment |-> comment, filter_slug |-> filter_slug]

\* the tokens [-/,a-zA-Z0-9\s] of PRICING_RULE_CASE_PATTERN stands for
Slugs == {"foo", "bar", "baz", "qux", "solo"}

OptionChars == Slugs \cup {"/", ",", " "}

\* the tokens (\d\d?)([,.]\d\d?)? stands for
PriceTokens == {"10", "7", "10,5"}

RECURSIVE skip_spaces(_, _)
\* \s*: the first place from i on that holds no space
skip_spaces(s, i) ==
    IF i <= Len(s) /\ s[i] = " " THEN skip_spaces(s, i + 1) ELSE i

NoMatch == [matched |-> FALSE, match_options |-> <<>>, price |-> ""]

\* PRICING_RULE_CASE_PATTERN.match: a bracketed option list, the arrow and a
\* price, with nothing after the price looked at
case_match(line) ==
    LET closing == {i \in 2..Len(line) : line[i] = "]"}
        close == CHOOSE i \in closing : \A j \in closing : i <= j
        arrow == skip_spaces(line, close + 1)
        price == skip_spaces(line, arrow + 1)
    IN  IF /\ line # <<>>
           /\ Head(line) = "["
           /\ closing # {}
           /\ \A i \in 2..(close - 1) : line[i] \in OptionChars
           /\ arrow <= Len(line)
           /\ line[arrow] = "->"
           /\ price <= Len(line)
           /\ line[price] \in PriceTokens
        THEN [matched |-> TRUE, match_options |-> SubSeq(line, 2, close - 1),
              price |-> line[price]]
        ELSE NoMatch

\* moneyed.Decimal(price); -1 stands for decimal.InvalidOperation
PriceDecimal(price) ==
    CASE price = "10" -> 10
      [] price = "7" -> 7
      [] OTHER -> -1

\* an exception and the line number its message carries (-1: none)
Exception(exc, msg, line_no) == [exc |-> exc, msg |-> msg, line_no |-> line_no]

NotRaised == Exception(NoException, "", -1)

\* what handle_line or handle_option gives: a value or an exception, and
\* the registry afterwards
Handled(raised_, value, registry, activities) ==
    [raised |-> raised_, value |-> value, registry |-> registry,
     activities |-> activities]

\* handle_option in PricingRule._parse_specification
handle_option(registry, activities, line_no, option) ==
    Only({CASE res.outcome = "ValueError" ->
                   Handled(Exception("ValueError", "is not a valid option", line_no),
                           NoOption, res.registry, activities)
            [] res.outcome = "AssertionError" ->
                   Handled(Exception("AssertionError", "", -1),
                           NoOption, res.registry, activities)
            [] OTHER ->
                   Handled(NotRaised, res.opt, res.registry,
                           activities \cup {res.opt.act_pk}) :
          res \in {ensure_registered(registry, option, NoPk)}})

RECURSIVE handle_options(_, _, _, _, _)
\* [handle_option(line_no, option) for option in options_to_parse]
handle_options(registry, activities, line_no, options_to_parse, option_list) ==
    IF options_to_parse = <<>>
    THEN Handled(NotRaised, option_list, registry, activities)
    ELSE Only({IF h.raised # NotRaised THEN h
               ELSE handle_options(h.registry, h.activities, line_no,
                        Tail(options_to_parse), Append(option_list, h.value)) :
               h \in {handle_option(registry, activities, line_no,
                                    Head(options_to_parse))}})

\* handle_line in PricingRule._parse_specification
handle_line(r, registry, activities, line_no, line) ==
    LET m == case_match(strip(line))
        option_list_str == strip(m.match_options)
        options_to_parse == IF option_list_str = <<>> THEN <<>>
                            ELSE split(option_list_str, ",")
        price == PriceDecimal(m.price)
    IN  IF ~m.matched
        THEN Handled(Exception("ValueError",
                         "does not constitute a valid pricing rule", line_no),
                     <<>>, registry, activities)
        ELSE IF price = -1
        THEN Handled(Exception("InvalidOperation", "", -1),
                     <<>>, registry, activities)
        ELSE Only({IF option_list.raised # NotRaised THEN option_list
                   ELSE Handled(NotRaised,
                            [criteria |-> option_list.value,
                             pricing_data |-> PricingData(price, r.description,
                                                  r.default_filter_slug)],
                            option_list.registry, option_list.activities) :
                   option_list \in {handle_options(registry, activities, line_no,
                                        options_to_parse, <<>>)}})

RECURSIVE handle_lines(_, _, _, _, _)
\* [handle_line(*t) for t in enumerate(spec_lines)], from line i - 1 on
handle_lines(r, registry, activities, i, rules) ==
    IF i > Len(r.specification)
    THEN Handled(NotRaised, rules, registry, activities)
    ELSE Only({IF h.raised # NotRaised THEN h
               ELSE handle_lines(r, h.registry, h.activities, i + 1,
                                 Append(rules, h.value)) :
               h \in {handle_line(r, registry, activities, i - 1,
                                  r.specification[i])}})

\* a PricingRule as loaded, with the registry it is processed against
PricingRule(specification, no_match_default, registry) ==
    [specification |-> specification, no_match_default |-> no_match_default,
     description |-> "entrance", default_filter_slug |-> "entrance-fee",
     processed |-> FALSE, matching_rules |-> <<>>, relevant_activities |-> {},
     raised |-> NotRaised, opts |-> {},
     result |-> [outcome |-> "none", data |-> PricingData(0, "", "")],
     registry |-> registry]

\* PricingRule._parse_specification
parse_specification(r) ==
    Only({IF h.raised # NotRaised
          THEN [r EXCEPT !.raised = h.raised, !.registry = h.registry]
          ELSE [r EXCEPT !.processed = TRUE, !.matching_rules = h.value,
                         !.relevant_activities = h.activities,
                         !.registry = h.registry] :
          h \in {handle_lines(r, r.registry, {}, 1, <<>>)}})

\* mutant: a criterion is matched when it contains every held option
is_matched_by_all(criterium, opts) ==
    \A opt \in opts : option_contains(criterium, opt)

\* is_matched in PricingRule.opts_match
is_matched(criterium, opts) ==
    \E opt \in opts : option_contains(criterium, opt)

\* a rule matches if all its criteria are satisfied
case_matches(criteria, opts) ==
    \A c \in 1..Len(criteria) : is_matched(criteria[c], opts)

RECURSIVE first_match(_, _, _)
\* the loop of opts_match from case i on; 0 when it falls through
first_match(matching_rules, opts, i) ==
    IF i > Len(matching_rules) THEN 0
    ELSE IF case_matches(matching_rules[i].criteria, opts) THEN i
    ELSE first_match(matching_rules, opts, i + 1)

\* PricingRule.opts_match
opts_match(r, opts) ==
    LET hit == first_match(r.matching_rules, opts, 1)
    IN  IF ~r.processed
        THEN [outcome |-> "ValueError", data |-> PricingData(0, "", "")]
        ELSE IF hit # 0
        THEN [outcome |-> "PricingData", data |-> r.matching_rules[hit].pricing_data]
        ELSE [outcome |-> "PricingData",
              data |-> PricingData(r.no_match_default, r.description,
                                   r.default_filter_slug)]

(* -------------------- specification: pricing rules -------------------- *)
MaxCases == 2

\* "[/foo, /bar/baz] -> 10"
LineSpaced ==
    <<"[", "/", "foo", ",", " ", "/", "bar", "/", "baz", "]", " ", "->", " ", "10">>

\* "[/foo,/bar/baz] -> 10"
LineTight ==
    <<"[", "/", "foo", ",", "/", "bar", "/", "baz", "]", " ", "->", " ", "10">>

\* "[/bar] -> 7"
LineBar == <<"[", "/", "bar", "]", " ", "->", " ", "7">>

\* "/bar -> 7"
LineNoBrackets == <<"/", "bar", " ", "->", " ", "7">>

\* "[/qux] -> 10,5"
LineComma == <<"[", "/", "qux", "]", " ", "->", " ", "10,5">>

CaseLines == {LineSpaced, LineTight, LineBar, LineNoBrackets, LineComma}

Specifications == UNION {[1..n -> CaseLines] : n \in 1..MaxCases}

\* the option declarations of the activities: "/qux" and "/bar/baz/solo"
DeclaredPaths == {<<"/", "qux">>, <<"/", "bar", "/", "baz", "/", "solo">>}

\* the options a registry holds
Options(registry) == {registry.seen[i].opt : i \in 1..Len(registry.seen)}

InitPricing ==
    \E specification \in Specifications, focus_pk \in {NoPk, 1} :
        /\ rule = PricingRule(specification, 5, ActivityOptionRegistry(focus_pk))
        /\ PreparatorIdle
        /\ StoreEmpty
        /\ GeneratorIdle
        /\ ResolverIdle
        /\ ParserIdle
        /\ LedgerIdle

\* registry.register(path) for an option declaration not yet seen
Register ==
    /\ rule # NoRule
    /\ \E path \in DeclaredPaths :
          /\ \A i \in 1..Len(rule.registry.seen) : rule.registry.seen[i].path # path
          /\ rule' = [rule EXCEPT !.registry = register(@, path, NoPk).registry]
    /\ UNCHANGED <<gen, prepVars, storeVars, resolverVars, parserVars,
                 ledgerVars>>

\* rule._parse_specification(registry) on a rule not processed before
Process ==
    /\ rule # NoRule
    /\ ~rule.processed
    /\ rule.raised = NotRaised
    /\ rule' = parse_specification(rule)
    /\ UNCHANGED <<gen, prepVars, storeVars, resolverVars, parserVars,
                 ledgerVars>>

\* rule.opts_match(opts) for options the registry holds
OptsMatch ==
    /\ rule # NoRule
    /\ \E opts \in SUBSET Options(rule.registry) :
          rule' = [rule EXCEPT !.opts = opts, !.result = opts_match(rule, opts)]
    /\ UNCHANGED <<gen, prepVars, storeVars, resolverVars, parserVars,
                 ledgerVars>>

NextPricing == Register \/ Process \/ OptsMatch

SpecPricing == InitPricing /\ [][NextPricing]_vars

(* ----------------------- balances of a record ------------------------- *)
RECURSIVE Sum(_)
\* Sum('amount') over the split amounts of a record
Sum(amounts) == IF amounts = <<>> THEN 0 ELSE Head(amounts) + Sum(Tail(amounts))

\* a debt or payment instance as a queryset hands it out: with the three
\* annotations of with_remote_accounts, or without; split_manager holds the
\* amounts of the splits the store has for it, cache what cached_property kept
DoubleBookModel(kind, pk, total_amount, split_manager, annotated) ==
    [loaded |-> TRUE, kind |-> kind, pk |-> pk, total_amount |-> total_amount,
     split_manager |-> split_manager, annotated |-> annotated,
     matched_balance_fromdb |-> IF annotated THEN Sum(split_manager) ELSE 0,
     unmatched_balance_fromdb |->
         IF annotated THEN total_amount - Sum(split_manager) ELSE 0,
     fully_matched_fromdb |-> annotated /\ total_amount <= Sum(split_manager),
     cache |-> {}]

\* the value cached_property keeps under a name, as a set of at most one
Cached(r, name) == {c.value : c \in {d \in r.cache : d.name = name}}

\* DoubleBookModel.matched_balance
matched_balance(r) ==
    IF Cached(r, "matched_balance") # {} THEN Only(Cached(r, "matched_balance"))
    ELSE IF r.annotated THEN r.matched_balance_fromdb
    ELSE IF r.pk = NoPk THEN 0
    ELSE Sum(r.split_manager)

\* DoubleBookModel.unmatched_balance
unmatched_balance_of(r) ==
    IF Cached(r, "unmatched_balance") # {}
    THEN Only(Cached(r, "unmatched_balance"))
    ELSE IF r.annotated THEN r.unmatched_balance_fromdb
    ELSE r.total_amount - matched_balance(r)

\* DoubleBookModel.fully_matched: not self.unmatched_balance, and a Money is
\* false exactly when its amount is zero
fully_matched(r) == unmatched_balance_of(r) = 0

\* the cache after a first read of the property `name`; reading
\* unmatched_balance or fully_matched reads what they are computed from
CacheAfter(r, name) ==
    LET mb == [name |-> "matched_balance", value |-> matched_balance(r)]
        ub == [name |-> "unmatched_balance", value |-> unmatched_balance_of(r)]
        below == IF r.annotated \/ Cached(r, "unmatched_balance") # {}
                 THEN {ub} ELSE {mb, ub}
    IN  CASE name = "matched_balance" -> r.cache \cup {mb}
          [] name = "unmatched_balance" -> r.cache \cup below
          [] OTHER -> r.cache \cup below

(* ---------------- specification: balances of a record ----------------- *)
RecordKinds == {"debt", "payment"}

\* the split amounts the store may hold for one record
SplitAmounts == UNION {[1..n -> 1..MaxAmount] : n \in 0..MaxItems}

InitBalance ==
    /\ \/ \E kind \in RecordKinds, total_amount \in 1..MaxAmount,
             split_manager \in SplitAmounts, annotated \in BOOLEAN :
             record = DoubleBookModel(kind, 1, total_amount, split_manager,
                                      annotated)
       \/ \E kind \in RecordKinds, total_amount \in 1..MaxAmount :
             record = DoubleBookModel(kind, NoPk, total_amount, <<>>, FALSE)
    /\ form = NoForm
    /\ tracking = NoTracking
    /\ PreparatorIdle
    /\ StoreEmpty
    /\ GeneratorIdle
    /\ ResolverIdle
    /\ ParserIdle
    /\ PricingIdle

\* a first read of amount_paid / credit_used, balance / credit_remaining or
\* paid / fully_used on the record
ReadProperty ==
    /\ record # NoRecord
    /\ \E name \in {"matched_balance", "unmatched_balance", "fully_matched"} :
          /\ name \notin {c.name : c \in record.cache}
          /\ record' =
                [record EXCEPT !.cache =
                    IF name = "fully_matched"
                    THEN CacheAfter(record, name)
                             \cup {[name |-> name,
                                    value |-> IF fully_matched(record)
                                              THEN 1 ELSE 0]}
                    ELSE CacheAfter(record, name)]
    /\ UNCHANGED <<gen, prepVars, storeVars, resolverVars, parserVars,
                   pricingVars, formVars, codecVars>>

NextBalance == ReadProperty

SpecBalance == InitBalance /\ [][NextBalance]_vars

(* ------------------- specification: error reports -------------------- *)
\* most errors reported to one parser or one preparator
MaxReports == 2

\* line 0 stands for the whole file
ReportLines == {0, 2, 3}

\* the line_nos handed to error_at_lines, in the order the caller has them
ReportLineNos == {<<2>>, <<3>>, <<2, 3>>, <<3, 2>>, <<3, 3>>}

InitErrors ==
    /\ parser = NewParser(FinancialCSVParser, [header |-> {}, rows |-> <<>>])
    /\ PreparatorIdle
    /\ StoreEmpty
    /\ GeneratorIdle
    /\ ResolverIdle
    /\ PricingIdle
    /\ LedgerIdle

\* parser.error(line_no, msg); the message is made from the number of the call
ParserError ==
    /\ parser # NoParser
    /\ Len(parser.errors) < MaxReports
    /\ \E line_no \in ReportLines :
          parser' = [parser EXCEPT
                        !.errors = error(@, line_no, "report",
                                         Len(parser.errors) + 1)]
    /\ UNCHANGED <<gen, prepVars, storeVars, resolverVars, pricingVars,
                   ledgerVars>>

\* preparator.error_at_lines(line_nos, msg, params); the message is made from
\* the number of the call
PreparatorError ==
    /\ parser # NoParser
    /\ Len(errors) < MaxReports
    /\ \E line_nos \in ReportLineNos :
          errors' = error_at_lines(errors, line_nos, "report", Len(errors) + 1)
    /\ UNCHANGED <<gen, pc, transactions, valid_transactions, members_by_id,
                   cursor, log, raised, storeVars, otherVars>>

NextErrors == ParserError \/ PreparatorError

SpecErrors == InitErrors /\ [][NextErrors]_vars

(* --------------------- committing a confirmed batch ------------------- *)
\* the ledger entries formset number i saves, one per form
FormsetEntries(i, forms) == {[formset |-> i, form |-> k] : k \in 1..forms}

\* the entries of a list of formsets, as a sequence in saving order
RECURSIVE Saved(_, _)
Saved(entries, k) ==
    IF entries = {} THEN <<>>
    ELSE LET e == CHOOSE x \in entries : x.form = k
         IN  <<e>> \o Saved(entries \ {e}, k + 1)

\* mutant: what was saved before the exception stays in the store
atomic_exit_autocommit(store, written, failed) == store \o written

\* leaving `with db_transaction.atomic()`: commit, or roll back on an exception
atomic_exit(store, written, failed) ==
    IF failed THEN store ELSE store \o written

\* FinancialCSVUploadForm.submit_confirmation at its first statement
submit_confirmation(formsets) ==
    [submitted |-> TRUE, formsets |-> formsets, pc |-> "is_valid", i |-> 0,
     dirty |-> FALSE, written |-> <<>>, raised |-> NoException]

(* --------------- specification: committing a confirmed batch ---------- *)
\* most preparator classes, hence formsets, of one upload form
MaxFormsets == 2

\* a formset of the POST data: whether it validates, how many forms it has,
\* and whether the store refuses its save
FormsetChoices == [valid : BOOLEAN, forms : 0..2, save_fails : BOOLEAN]

Formsets == UNION {[1..n -> FormsetChoices] : n \in 1..MaxFormsets}

InitCommit ==
    /\ \E formsets \in Formsets : form = submit_confirmation(formsets)
    /\ record = NoRecord
    /\ tracking = NoTracking
    /\ PreparatorIdle
    /\ StoreEmpty
    /\ GeneratorIdle
    /\ ResolverIdle
    /\ ParserIdle
    /\ PricingIdle

\* one pass of the validation loop
IsValid ==
    /\ form # NoForm
    /\ form.pc = "is_valid"
    /\ form.i < Len(form.formsets)
    /\ form' = [form EXCEPT !.i = @ + 1,
                            !.dirty = @ \/ ~form.formsets[form.i + 1].valid]
    /\ log' = IF form.formsets[form.i + 1].valid THEN log
              ELSE Append(log, [level |-> "error", formset |-> form.i + 1])
    /\ UNCHANGED <<gen, pc, transactions, errors, valid_transactions,
                   members_by_id, cursor, raised, storeVars, resolverVars,
                   parserVars, pricingVars, recordVars, codecVars>>

\* after the loop: raise SuspiciousOperation, or enter the atomic block
AfterValidation ==
    /\ form # NoForm
    /\ form.pc = "is_valid"
    /\ form.i = Len(form.formsets)
    /\ form' = IF form.dirty
               THEN [form EXCEPT !.pc = "raised",
                                 !.raised = "SuspiciousOperation"]
               ELSE [form EXCEPT !.pc = "atomic", !.i = 0]
    /\ UNCHANGED <<gen, prepVars, storeVars, resolverVars, parserVars,
                   pricingVars, recordVars, codecVars>>

\* formset.save() inside the atomic block; a failing save leaves the block
\* with its exception
Save ==
    /\ form # NoForm
    /\ form.pc = "atomic"
    /\ form.i < Len(form.formsets)
    /\ LET formset == form.formsets[form.i + 1] IN
       IF formset.save_fails
       THEN /\ form' = [form EXCEPT !.pc = "raised", !.raised = "DatabaseError"]
            /\ store_payments' = atomic_exit(store_payments, form.written, TRUE)
       ELSE /\ form' = [form EXCEPT
                           !.i = @ + 1,
                           !.written = @ \o Saved(FormsetEntries(form.i + 1,
                                                      formset.forms), 1)]
            /\ UNCHANGED store_payments
    /\ UNCHANGED <<gen, prepVars, store_debts, store_members, resolverVars,
                   parserVars, pricingVars, recordVars, codecVars>>

\* the end of the atomic block
Commit ==
    /\ form # NoForm
    /\ form.pc = "atomic"
    /\ form.i = Len(form.formsets)
    /\ form' = [form EXCEPT !.pc = "done"]
    /\ store_payments' = atomic_exit(store_payments, form.written, FALSE)
    /\ UNCHANGED <<gen, prepVars, store_debts, store_members, resolverVars,
                   parserVars, pricingVars, recordVars, codecVars>>

NextCommit == IsValid \/ AfterValidation \/ Save \/ Commit

SpecCommit == InitCommit /\ [][NextCommit]_vars

(* ------------------------------ OGM codec ----------------------------- *)
\* the decimal digits as characters
DigitChars == <<"0", "1", "2", "3", "4", "5", "6", "7", "8", "9">>

digit_char(d) == DigitChars[d + 1]

IsDigit(c) == \E d \in 0..9 : DigitChars[d + 1] = c

digit_value(c) == CHOOSE d \in 0..9 : DigitChars[d + 1] = c

\* '%0<width>d' % n
RECURSIVE zero_pad(_, _)
zero_pad(n, width) ==
    IF width = 0 THEN <<>>
    ELSE zero_pad(n \div 10, width - 1) \o <<digit_char(n % 10)>>

\* int(text) % modulus, the digits read from the left
RECURSIVE int_mod(_, _, _)
int_mod(text, modulus, acc) ==
    IF text = <<>> THEN acc
    ELSE int_mod(Tail(text), modulus, (acc * 10 + digit_value(Head(text))) % modulus)

\* int(text) of at most nine digits
RECURSIVE int_of(_, _)
int_of(text, acc) ==
    IF text = <<>> THEN acc
    ELSE int_of(Tail(text), acc * 10 + digit_value(Head(text)))

\* int(text) of a longer numeral: the value is hi * 10^9 + lo
BigInt(text) ==
    IF Len(text) <= 9 THEN [hi |-> 0, lo |-> int_of(text, 0)]
    ELSE [hi |-> int_of(SubSeq(text, 1, Len(text) - 9), 0),
          lo |-> int_of(SubSeq(text, Len(text) - 8, Len(text)), 0)]

\* n // 10**9
floordiv_milliard(n) == n.hi

\* the two check digits of the leading ten: modulus 97, a remainder of 0
\* rendered as 97
ogm_modulus(lead) ==
    LET remainder == int_mod(lead, 97, 0)
    IN  IF remainder = 0 THEN 97 ELSE remainder

\* encode(prefix_digit, record_id): twelve digits
ogm_from_prefix(prefix_digit, record_id) ==
    LET lead == <<digit_char(prefix_digit)>> \o zero_pad(record_id, 9)
    IN  lead \o zero_pad(ogm_modulus(lead), 2)

\* the display form +++ddd/dddd/ddddd+++ of twelve digits
ogm_display(digits) ==
    <<"+", "+", "+">> \o SubSeq(digits, 1, 3) \o <<"/">> \o SubSeq(digits, 4, 7)
        \o <<"/">> \o SubSeq(digits, 8, 12) \o <<"+", "+", "+">>

IsSeparator(c) == c \in {"+", "/", " "}

\* no number was parsed
NoNumber == [hi |-> 0, lo |-> 0]

\* parse(text): strip whitespace and +/ separators, accept twelve decimal
\* digits, recompute the modulus; ValueError otherwise
parse_ogm(text) ==
    LET kept(c) == ~IsSeparator(c)
        digits == SelectSeq(text, kept)
        failure(kind) == [raised |-> "ValueError", kind |-> kind,
                          prefix |-> NoNumber, modulus |-> 0]
    IN  IF \E i \in 1..Len(digits) : ~IsDigit(digits[i])
        THEN failure("NonNumeric")
        ELSE IF Len(digits) # 12 THEN failure("WrongLength")
        ELSE IF int_of(SubSeq(digits, 11, 12), 0) # ogm_modulus(SubSeq(digits, 1, 10))
        THEN failure("BadChecksum")
        ELSE [raised |-> NoException, kind |-> "none",
              prefix |-> BigInt(SubSeq(digits, 1, 10)),
              modulus |-> int_of(SubSeq(digits, 11, 12), 0)]

\* mutant: every well-formed OGM applies, whatever its prefix
index_ogm_applies_any(prefix_digit, text) ==
    parse_ogm(text).raised = NoException

\* TransferTransactionIndexBuilder.ogm_applies
index_ogm_applies(prefix_digit, text) ==
    LET parsed == parse_ogm(text)
    IN  IF parsed.raised = "ValueError" THEN FALSE
        ELSE prefix_digit = floordiv_milliard(parsed.prefix)

\* TransferTransactionIndexBuilder.append: the returned value and line_index;
\* line_index holds (account_lookup_str, line numbers) pairs
index_append(prefix_digit, line_index, tinfo) ==
    LET string == tinfo.account_lookup_str
    IN  IF ~index_ogm_applies(prefix_digit, string)
        THEN [returned |-> FALSE, line_index |-> line_index]
        ELSE [returned |-> TRUE,
              line_index |->
                  IF \E k \in 1..Len(line_index) : line_index[k].key = string
                  THEN [k \in 1..Len(line_index) |->
                           IF line_index[k].key = string
                           THEN [line_index[k] EXCEPT
                                    !.lines = Append(@, tinfo.line_no)]
                           ELSE line_index[k]]
                  ELSE Append(line_index,
                              [key |-> string, lines |-> <<tinfo.line_no>>])]

(* ----------------------- specification: OGM codec --------------------- *)
\* record ids: the residues modulo 97, and both ends of the nine-digit range
CodecRecordIds == 0..96 \cup {97, 9999, 123456789, 999999932, 999999999}

CodecPrefixDigits == 1..9

\* how the payer may write the tracking number on the transfer
Written(encoded) ==
    {encoded,
     ogm_display(encoded),
     [encoded EXCEPT ![12] = digit_char((digit_value(@) + 1) % 10)],
     SubSeq(encoded, 1, 11),
     [encoded EXCEPT ![5] = "x"]}

InitCodec ==
    /\ \E prefix_digit \in CodecPrefixDigits, record_id \in CodecRecordIds,
          builder \in CodecPrefixDigits :
          tracking = [encoded |-> <<>>, pc |-> "encode",
                      prefix_digit |-> prefix_digit, record_id |-> record_id,
                      builder |-> builder, text |-> <<>>,
                      parsed |-> parse_ogm(<<>>),
                      line_index |-> <<>>, returned |-> FALSE]
    /\ record = NoRecord
    /\ form = NoForm
    /\ PreparatorIdle
    /\ StoreEmpty
    /\ GeneratorIdle
    /\ ResolverIdle
    /\ ParserIdle
    /\ PricingIdle

\* the member's payment tracking number is computed
Encode ==
    /\ tracking # NoTracking
    /\ tracking.pc = "encode"
    /\ tracking' = [tracking EXCEPT
                       !.pc = "write",
                       !.encoded = ogm_from_prefix(tracking.prefix_digit,
                                                   tracking.record_id)]
    /\ UNCHANGED <<gen, prepVars, storeVars, resolverVars, parserVars,
                   pricingVars, recordVars, formVars>>

\* the number comes back as the account_lookup_str of a bank transfer
Write ==
    /\ tracking # NoTracking
    /\ tracking.pc = "write"
    /\ \E text \in Written(tracking.encoded) :
          tracking' = [tracking EXCEPT !.pc = "parse", !.text = text]
    /\ UNCHANGED <<gen, prepVars, storeVars, resolverVars, parserVars,
                   pricingVars, recordVars, formVars>>

\* parse(text)
Parse ==
    /\ tracking # NoTracking
    /\ tracking.pc = "parse"
    /\ tracking' = [tracking EXCEPT !.pc = "append",
                                    !.parsed = parse_ogm(tracking.text)]
    /\ UNCHANGED <<gen, prepVars, storeVars, resolverVars, parserVars,
                   pricingVars, recordVars, formVars>>

\* the index builder is offered the transfer, read from line 2
IndexAppend ==
    /\ tracking # NoTracking
    /\ tracking.pc = "append"
    /\ LET result == index_append(tracking.builder, tracking.line_index,
                                  [account_lookup_str |-> tracking.text,
                                   line_no |-> 2])
       IN  tracking' = [tracking EXCEPT !.pc = "done",
                                        !.returned = result.returned,
                                        !.line_index = result.line_index]
    /\ UNCHANGED <<gen, prepVars, storeVars, resolverVars, parserVars,
                   pricingVars, recordVars, formVars>>

NextCodec == Encode \/ Write \/ Parse \/ IndexAppend

SpecCodec == InitCodec /\ [][NextCodec]_vars

(* ------------------- properties of the split generator ---------------- *)
\* what the splits emitted so far apply of payment p, and cover of debt d
UsedOf(p) ==
    LET mine(s) == s.payment.id = p.id IN SumAmounts(SelectSeq(gen.splits, mine))

PaidOf(d) ==
    LET mine(s) == s.debt.id = d.id IN SumAmounts(SelectSeq(gen.splits, mine))

\* the splits of the exact-match phase lead the stream: one per payment
\* examined and not deferred
ExactSplits == SubSeq(gen.splits, 1, gen.examined - Len(gen.payments_todo))

Finished == gen.pc = "done"

\* C1: every split emitted, by the exact-match phase or by the greedy phase,
\* has payment.timestamp >= debt.timestamp.
Chronology ==
    \A i \in 1..Len(gen.splits) :
        gen.splits[i].payment.timestamp >= gen.splits[i].debt.timestamp

\* a run that emitted in both phases although some debt is younger than some
\* payment
ChronologyWitness ==
    /\ Finished
    /\ Len(ExactSplits) >= 1
    /\ Len(gen.splits) > Len(ExactSplits)
    /\ \E p \in Range(gen.payments), d \in Range(gen.debts) :
          p.timestamp < d.timestamp

InExactlyOne(x, a, b) ==
    Cardinality({i \in 1..Len(a) : a[i] = x})
        + Cardinality({i \in 1..Len(b) : b[i] = x}) = 1

\* C2: when the generator has returned, every input payment is in exactly one
\* of fully_used_payments and remaining_payments, and every input debt in
\* exactly one of fully_paid_debts and remaining_debts.
Partition ==
    Finished =>
        /\ \A p \in Range(gen.payments) :
              InExactlyOne(p, gen.results.fully_used_payments,
                           gen.results.remaining_payments)
        /\ \A d \in Range(gen.debts) :
              InExactlyOne(d, gen.results.fully_paid_debts,
                           gen.results.remaining_debts)

\* C3: the emitted amounts sum to at most the payments' total amounts and to
\* at most the debts' total amounts.
Conservation ==
    /\ SumAmounts(gen.splits) <= SumTotals(gen.payments)
    /\ SumAmounts(gen.splits) <= SumTotals(gen.debts)

\* a run of several splits that uses up the debts and leaves credit over
ConservationWitness ==
    /\ Finished
    /\ Len(gen.splits) >= 2
    /\ SumAmounts(gen.splits) = SumTotals(gen.debts)
    /\ SumAmounts(gen.splits) < SumTotals(gen.payments)

\* C4: after any prefix of the split stream, no payment has more applied than
\* its credit_remaining at entry and no debt has more covered than its balance
\* at entry, neither more than the total amount.
PerEntityBound ==
    /\ \A p \in Range(gen.payments) :
          UsedOf(p) <= credit_remaining(p) /\ UsedOf(p) <= p.total_amount
    /\ \A d \in Range(gen.debts) :
          PaidOf(d) <= balance(d) /\ PaidOf(d) <= d.total_amount

\* mid-stream: a payment spread over two debts, the second only in part
PerEntityBoundWitness ==
    /\ ~Finished
    /\ \E p \in Range(gen.payments) :
          /\ UsedOf(p) = credit_remaining(p)
          /\ Cardinality({i \in 1..Len(gen.splits) :
                             gen.splits[i].payment = p}) = 2
    /\ \E d \in Range(gen.debts) : 0 < PaidOf(d) /\ PaidOf(d) < balance(d)

\* the debts claimed by the exact-match phase before the turn of payment t
ClaimedBefore(t) ==
    {ExactSplits[i].debt : i \in {j \in 1..Len(ExactSplits) :
                                     ExactSplits[j].payment.id < t}}

\* the debts an exact match for payment t can take at its turn
ExactAvailable(t) ==
    {d \in Range(gen.debts) \ ClaimedBefore(t) :
        /\ balance(d) = credit_remaining(gen.payments[t])
        /\ d.timestamp <= gen.payments[t].timestamp}

SplitsOfPayment(p) == {i \in 1..Len(gen.splits) : gen.splits[i].payment = p}

SplitsOfDebt(d) == {i \in 1..Len(gen.splits) : gen.splits[i].debt = d}

\* C5: with prioritise_exact_amount_match, a payment that at its turn has an
\* unclaimed debt of its exact amount, not younger than itself, gets exactly
\* one split: for its full amount, with the first such debt in debt order; and
\* neither that payment nor that debt is in any other split.
ExactMatchPriority ==
    gen.prioritise_exact_amount_match =>
        \A t \in 1..gen.examined :
            ExactAvailable(t) # {} =>
                LET p == gen.payments[t]
                    first == CHOOSE d \in ExactAvailable(t) :
                                 \A e \in ExactAvailable(t) : d.id <= e.id
                IN  /\ Cardinality(SplitsOfPayment(p)) = 1
                    /\ Cardinality(SplitsOfDebt(first)) = 1
                    /\ \A i \in SplitsOfPayment(p) :
                          gen.splits[i] =
                              split_model(p, first, credit_remaining(p))

\* the first payment takes the second debt, the second payment the first debt
ExactMatchPriorityWitness ==
    /\ Finished
    /\ gen.prioritise_exact_amount_match
    /\ ~gen.exact_amount_match_only
    /\ Len(gen.splits) = 2
    /\ gen.splits[1].payment.id = 1 /\ gen.splits[1].debt.id = 2
    /\ gen.splits[2].payment.id = 2 /\ gen.splits[2].debt.id = 1
    /\ gen.splits[1].amount # gen.splits[2].amount


(* ------------------ properties of the two phases ---------------------- *)
\* the splits of the greedy phase follow those of the exact-match phase
GreedyIndices == (Len(ExactSplits) + 1)..Len(gen.splits)

ExactDebts == {ExactSplits[i].debt : i \in 1..Len(ExactSplits)}

ExactPayments == {ExactSplits[i].payment : i \in 1..Len(ExactSplits)}

\* what the splits before split number i cover of debt d, and apply of
\* payment p
PaidBefore(d, i) ==
    LET mine(s) == s.debt.id = d.id
    IN  SumAmounts(SelectSeq(SubSeq(gen.splits, 1, i - 1), mine))

UsedBefore(p, i) ==
    LET mine(s) == s.payment.id = p.id
    IN  SumAmounts(SelectSeq(SubSeq(gen.splits, 1, i - 1), mine))

\* split number i takes the smaller of the two remainders
TakesTheLesser(i) ==
    LET s == gen.splits[i]
        uncovered == balance(s.debt) - PaidBefore(s.debt, i)
        unused == credit_remaining(s.payment) - UsedBefore(s.payment, i)
    IN  /\ s.amount <= uncovered
        /\ s.amount <= unused
        /\ s.amount = uncovered \/ s.amount = unused

\* the example run, in its greedy phase
CarryOverRun ==
    /\ gen.payments = CarryOverPayments
    /\ gen.debts = CarryOverDebts
    /\ ~gen.exact_amount_match_only
    /\ Finished

\* C25: in the greedy phase every split takes min(uncovered remainder of the
\* debt, unused remainder of the payment); splits come in non-decreasing order
\* of payment position and of debt position; a debt gets a split only after
\* every earlier candidate debt is covered in full; and the payment of 100 at
\* T2 against debts 30 at T0, 40 at T1, 50 at T2 yields (P,D1,30), (P,D2,40),
\* (P,D3,30), D3 in remaining_debts and P in fully_used_payments.
GreedyCarryOver ==
    /\ \A i \in GreedyIndices :
          /\ TakesTheLesser(i)
          /\ \A j \in GreedyIndices :
                j < i => /\ gen.splits[j].payment.id <= gen.splits[i].payment.id
                         /\ gen.splits[j].debt.id <= gen.splits[i].debt.id
          /\ \A d \in Range(gen.debts) \ ExactDebts :
                d.id < gen.splits[i].debt.id => PaidBefore(d, i) = balance(d)
    /\ CarryOverRun =>
          /\ gen.splits =
                <<split_model(CarryOverPayments[1], CarryOverDebts[1], 30),
                  split_model(CarryOverPayments[1], CarryOverDebts[2], 40),
                  split_model(CarryOverPayments[1], CarryOverDebts[3], 30)>>
          /\ gen.results.remaining_debts = <<CarryOverDebts[3]>>
          /\ gen.results.fully_used_payments = <<CarryOverPayments[1]>>

\* the example run has returned after its three splits
GreedyCarryOverWitness ==
    /\ CarryOverRun
    /\ Len(gen.splits) = 3
    /\ GreedyIndices = 1..3

UnmatchedPayment(p) == SplitsOfPayment(p) = {}

UnmatchedDebt(d) == SplitsOfDebt(d) = {}

\* C26: with exact_amount_match_only every split is for the payment's full
\* credit and the debt's full balance, no payment and no debt is in two
\* splits, the greedy phase never runs, and on return remaining_payments and
\* remaining_debts hold the unmatched payments and debts in input order.
ExactOnly ==
    gen.exact_amount_match_only =>
        /\ \A i \in 1..Len(gen.splits) :
              /\ gen.splits[i].amount = credit_remaining(gen.splits[i].payment)
              /\ gen.splits[i].amount = balance(gen.splits[i].debt)
        /\ \A p \in Range(gen.payments) : Cardinality(SplitsOfPayment(p)) <= 1
        /\ \A d \in Range(gen.debts) : Cardinality(SplitsOfDebt(d)) <= 1
        /\ gen.pc # "greedy"
        /\ GreedyIndices = {}
        /\ Finished =>
              /\ gen.results.remaining_payments =
                     SelectSeq(gen.payments, UnmatchedPayment)
              /\ gen.results.remaining_debts =
                     SelectSeq(gen.debts, UnmatchedDebt)

\* an exact-only run that matched one pair and left a payment and a debt
\* which the greedy phase would have matched
ExactOnlyWitness ==
    /\ gen.exact_amount_match_only
    /\ Finished
    /\ Len(gen.splits) = 1
    /\ \E p \in Range(gen.results.remaining_payments),
          d \in Range(gen.results.remaining_debts) :
          p.timestamp >= d.timestamp

\* the splits the greedy phase has emitted
GreedySplitCount == Len(gen.splits) - Len(ExactSplits)

\* a pass of the greedy loop that does not return
GreedyPass == gen.pc = "greedy" /\ gen'.pc = "greedy"

\* the pass pulled a debt or a payment, or its split used up one of the two
Progress ==
    \/ Len(gen'.debts_iter) < Len(gen.debts_iter)
    \/ Len(gen'.payments_iter) < Len(gen.payments_iter)
    \/ /\ Len(gen'.splits) = Len(gen.splits) + 1
       /\ gen'.debt_remaining = 0 \/ gen'.credit_remaining = 0

\* a pass that emits follows a split that used up the debt or the payment in
\* hand, so it pulls a record first
PullsBeforeEmitting ==
    Len(gen'.splits) = Len(gen.splits) + 1 =>
        \/ Len(gen'.debts_iter) < Len(gen.debts_iter)
        \/ Len(gen'.payments_iter) < Len(gen.payments_iter)

\* what the generator has left to do: payments to examine and then both
\* sequences at most, or the records not yet pulled
Remaining ==
    CASE gen.pc = "exact" ->
             2 + (Len(gen.payment_list) - gen.examined)
               + Len(gen.payments) + Len(gen.debts)
      [] gen.pc = "greedy" -> 1 + Len(gen.payments_iter) + Len(gen.debts_iter)
      [] OTHER -> 0

\* C27 as stated: the greedy phase emits at most payments + debts - 1 splits.
GreedyBoundAsStated ==
    GreedySplitCount <= Len(gen.payments) + Len(gen.debts) - 1

\* C27, amended: the generator returns, each resumption leaving it less to
\* do; every pass of the greedy loop that does not return pulls a debt or a
\* payment or emits a split that uses up the debt or the payment in hand;
\* and the greedy phase emits at most
\* payments + debts - 1 splits when there is any input, none when there is
\* no input.
GreedyTerminates ==
    /\ <>Finished
    /\ [][Remaining' < Remaining]_vars
    /\ [][GreedyPass => Progress /\ PullsBeforeEmitting]_vars
    /\ [](IF Len(gen.payments) + Len(gen.debts) = 0
          THEN GreedySplitCount = 0
          ELSE GreedySplitCount <= Len(gen.payments) + Len(gen.debts) - 1)

\* a greedy run that reached the bound: as many splits as records less one
GreedyTerminatesWitness ==
    /\ Finished
    /\ ~gen.prioritise_exact_amount_match
    /\ ~gen.exact_amount_match_only
    /\ Len(gen.payments) = 2
    /\ Len(gen.debts) = 2
    /\ GreedySplitCount = 3

\* C28: no (payment, debt) pair occurs in two splits of a run, a payment or
\* debt of an exact-match split is in no greedy split, and the greedy phase
\* never emits a pair again.
PairsUnique ==
    /\ \A i \in 1..Len(gen.splits) : \A j \in 1..Len(gen.splits) :
          i # j => \/ gen.splits[i].payment.id # gen.splits[j].payment.id
                   \/ gen.splits[i].debt.id # gen.splits[j].debt.id
    /\ \A j \in GreedyIndices :
          /\ gen.splits[j].payment \notin ExactPayments
          /\ gen.splits[j].debt \notin ExactDebts

\* both phases emitted, and the greedy phase paired what the exact-match
\* phase had left although the amounts differ
PairsUniqueWitness ==
    /\ Finished
    /\ Len(ExactSplits) = 1
    /\ GreedyIndices = {2}
    /\ gen.splits[2].payment.total_amount # gen.splits[2].debt.total_amount
    /\ gen.splits[2].payment.id # gen.splits[1].payment.id
    /\ gen.splits[2].debt.id # gen.splits[1].debt.id

(* ----------------- properties of the duplicate detector --------------- *)
\* the signatures of the batch
BatchSignatures ==
    {dupcheck_signature(transactions[i].ledger_entry) : i \in 1..Len(transactions)}

WithSignature(ts, sig) ==
    LET same(t) == dupcheck_signature(t.ledger_entry) = sig IN SelectSeq(ts, same)

\* B[sig]: the rows of the batch with that signature, in file order
B(sig) == WithSignature(transactions, sig)

\* H[sig]: the stored payments with that signature
H(sig) ==
    Cardinality({i \in 1..Len(store_payments) :
                    dupcheck_signature(store_payments[i]) = sig})

\* the rows with that signature that passed the detector
Surviving(sig) == WithSignature(valid_transactions.list, sig)

Lines(ts) == {ts[i].line_no : i \in 1..Len(ts)}

\* the errors that name exactly the lines of B[sig], in ascending order
ErrorsOn(sig) ==
    {i \in 1..Len(errors) :
        /\ Len(errors[i].lines) = Len(B(sig))
        /\ \A k \in 1..Len(B(sig)) : errors[i].lines[k] = B(sig)[k].line_no}

\* the errors that name some line of B[sig]
ErrorsTouching(sig) ==
    {i \in 1..Len(errors) : Range(errors[i].lines) \cap Lines(B(sig)) # {}}

DetectorRanOnce == pc = "review"

OriginalHistory ==
    LET before(entry) == entry.id < 0 IN SelectSeq(store_payments, before)

\* how many entries of the table carry the signature
Occurrences(table, sig) ==
    Cardinality({i \in 1..Len(table) : dupcheck_signature(table[i]) = sig})

\* how many rows of the file carry the signature
FileCount(sig) ==
    Cardinality({i \in 1..Len(transactions) :
                    dupcheck_signature(transactions[i].ledger_entry) = sig})

FileSignatures ==
    {dupcheck_signature(transactions[i].ledger_entry) : i \in 1..Len(transactions)}

\* the file has been imported before, and the detector has run on it again
RunAgain == Len(log) >= 1 /\ pc = "review"

Reviewed == pc = "done"

\* the parties that have a bucket of valid transactions
Parties == {t.ledger_entry.member : t \in Range(valid_transactions.list)}

PartyRows(key) == TransBucket(valid_transactions.list, key)

PartyLines(key) == {PartyRows(key)[i].line_no : i \in 1..Len(PartyRows(key))}

\* the sum of the total amounts of the party's payments
PartyCredit(key) == SumTotals(BucketPayments(PartyRows(key)))

\* the sum of the amounts of the splits generated for the party
PartyUsed(key) ==
    SumAmounts(make_splits(BucketPayments(PartyRows(key)),
                           debts_for(store_debts, members_by_id, key)))

\* what the party still owes on the debts that are not paid
PartyOutstanding(key) ==
    LET owed(d) == d.member = key /\ ~fully_matched_fromdb(d)
        RECURSIVE SumBalances(_)
        SumBalances(ds) ==
            IF ds = <<>> THEN 0 ELSE balance(Head(ds)) + SumBalances(Tail(ds))
    IN  SumBalances(SelectSeq(store_debts, owed))

OverpaymentErrors(key) ==
    {i \in 1..Len(errors) :
        /\ errors[i].msg = "overpayment_fmt_string"
        /\ Range(errors[i].lines) = PartyLines(key)}

\* C9: after review, for every party bucket of valid transactions, an
\* overpayment error is reported against the lines of all transactions of the
\* bucket if and only if the splits generated for the party sum to strictly
\* less than the total amounts of the party's payments; a party whose credit
\* is entirely used has no error on any of its lines.
OverpaymentReview ==
    Reviewed =>
        /\ \A key \in Parties :
              /\ OverpaymentErrors(key) # {} <=> PartyUsed(key) < PartyCredit(key)
              /\ Cardinality(OverpaymentErrors(key)) <= 1
              /\ PartyUsed(key) = PartyCredit(key) =>
                    \A i \in 1..Len(errors) :
                        Range(errors[i].lines) \cap PartyLines(key) = {}
              /\ PartyCredit(key) > PartyOutstanding(key) =>
                    OverpaymentErrors(key) # {}
        /\ \A i \in 1..Len(errors) :
              \E key \in Parties : i \in OverpaymentErrors(key)

\* one review in which a party is reported next to a party whose credit is
\* used up on its debt
OverpaymentReviewWitness ==
    /\ Reviewed
    /\ \E used_up \in Parties, over \in Parties :
          /\ 0 < PartyUsed(used_up)
          /\ PartyUsed(used_up) = PartyCredit(used_up)
          /\ OverpaymentErrors(used_up) = {}
          /\ PartyUsed(over) < PartyCredit(over)
          /\ OverpaymentErrors(over) # {}

(* ------------------ properties of the transfer preparator ------------- *)
\* the OGM parses cleanly, carries the preparator's prefix digit, and its
\* record id is the id of no party in the store
UnknownParty(t) ==
    /\ ogm_applies(OGM_INTERNAL_DEBT_PREFIX, t.ogm)
    /\ \A m \in store_members : m.pk # parse_internal_debt_ogm(t.ogm)

ErrorsAtLine(line_no) ==
    {i \in 1..Len(errors) : line_no \in Range(errors[i].lines)}

\* C10: a transfer row with a valid amount whose OGM parses cleanly and
\* carries the preparator's prefix digit but matches no party is advisory
\* only: once prepare has run its OGM is in the log, no error names its line,
\* it has no ledger entry, and no exception leaves the preparator.
UnknownPartyAdvisory ==
    \A i \in 1..Len(transactions) :
        (UnknownParty(transactions[i]) /\ transactions[i].amount >= 0) =>
            /\ raised = NoException
            /\ transactions[i].ledger_entry = NoEntry
            /\ ErrorsAtLine(transactions[i].line_no) = {}
            /\ pc # "prepare" =>
                  \E j \in 1..Len(log) : transactions[i].ogm \in log[j].unseen

\* the record id of the OGM is the id of a party whose canonical OGM is
\* another one
PartyMismatch(t) ==
    /\ ogm_applies(OGM_INTERNAL_DEBT_PREFIX, t.ogm)
    /\ \E m \in store_members :
          /\ m.pk = parse_internal_debt_ogm(t.ogm)
          /\ payment_tracking_no(m) # t.ogm

\* a ledger entry is bound to a party only on the party's canonical OGM
BoundOnCanonicalOGM ==
    \A i \in 1..Len(transactions) :
        transactions[i].ledger_entry # NoEntry =>
            \E m \in store_members :
                /\ m.pk = transactions[i].ledger_entry.member
                /\ payment_tracking_no(m) = transactions[i].ogm

FirstReadOver == pc \in {"done", "raised"} \/ Reads >= 1

\* no error is in the list twice
NoErrorTwice ==
    \A i \in 1..Len(errors) : \A j \in 1..Len(errors) :
        i # j => errors[i] # errors[j]

\* rows get their ledger entry in file order, and the result is stored when
\* review() starts
StepsInOrder ==
    /\ pc \in {"prepare", "valid"} /\ Reads = 0 =>
          \A i \in (cursor + 1)..Len(transactions) :
              transactions[i].ledger_entry = NoEntry
    /\ pc \in {"review", "done"} =>
          /\ valid_transactions.ready
          /\ cursor = Len(transactions)

\* a step taken after the first read leaves the result, the errors and the
\* rows as they are
NothingRunsAgain ==
    FirstReadOver =>
        /\ valid_transactions' = valid_transactions
        /\ errors' = errors
        /\ transactions' = transactions
        /\ pc' = pc

\* C30: the first read of valid_transactions runs prepare(), then
\* model_kwargs_for_transaction row by row in file order, then validate_global
\* on the rows that passed, then review(), with the result stored before
\* review() runs; every later read returns the same list, runs no step again
\* and adds no error a second time, also when the list is empty.
PipelineRunsOnce ==
    /\ []StepsInOrder
    /\ []NoErrorTwice
    /\ [][NothingRunsAgain]_vars

(* ------------------ properties of the email and name resolver --------- *)
\* the key a row is looked up under
LookupKey(t) ==
    IF t.member_str.at THEN t.member_str ELSE casefold(t.member_str)

\* the parties a lookup key designates
Designated(key) ==
    IF key.at THEN {m \in store_members : m.email = key}
    ELSE {m \in store_members : casefold(m.full_name) = key}

RowsWithKey(key) ==
    {i \in 1..Len(transactions) : LookupKey(transactions[i]) = key}

RowsSeen == pc = "validate_global" /\ cursor = Len(transactions)

\* C12: every lookup key that matched no party, and every name key that
\* matched several, has an error whose lines are exactly the lines of the
\* rows carrying the key, and none of those rows has a ledger entry; and a
\* row that the resolver dropped has an error naming its line.
ResolverReportsEveryDrop ==
    /\ pc # "prepare" =>
          \A i \in 1..Len(transactions) :
              LET key == LookupKey(transactions[i]) IN
              Cardinality(Designated(key)) # 1 =>
                  /\ \E e \in 1..Len(errors) :
                        Range(errors[e].lines) =
                            {transactions[j].line_no : j \in RowsWithKey(key)}
                  /\ transactions[i].ledger_entry = NoEntry
    /\ RowsSeen =>
          \A i \in 1..Len(transactions) :
              transactions[i].ledger_entry = NoEntry =>
                  ErrorsAtLine(transactions[i].line_no) # {}

\* C13: a row with a valid amount whose name equals, up to case, the full
\* name of exactly one party is bound to that party; a row with an address
\* is bound exactly when a party has that very address.
NamesCaseFolded ==
    RowsSeen =>
        \A i \in 1..Len(transactions) :
            LET t == transactions[i] IN
            t.amount >= 0 =>
                /\ (~t.member_str.at /\ Cardinality(Designated(LookupKey(t))) = 1) =>
                      /\ t.ledger_entry # NoEntry
                      /\ \E m \in Designated(LookupKey(t)) :
                            t.ledger_entry.member = m.pk
                /\ t.member_str.at =>
                      (t.ledger_entry # NoEntry <=>
                          \E m \in store_members : m.email = t.member_str)

(* ------------------------ properties of the parsers ------------------- *)
\* the file has been read, to its end or to an exception
FileRead ==
    /\ parser # NoParser
    /\ parser.file_read \/ parser.raised # NoException

HeaderComplete == Columns(parser.variant) \subseteq parser.csv_file.header

ParserErrorsAt(line_no) ==
    {e \in 1..Len(parser.errors) : parser.errors[e].line_no = line_no}

RecordsAt(line_no) ==
    {o \in 1..Len(parser.objects) : parser.objects[o].line_no = line_no}

\* how many of the amount and the date of a row do not parse
InvalidCells(row) ==
    (IF Decimal(row.amount) = -1 THEN 1 ELSE 0)
        + (IF row.date # "" /\ strptime(row.date) = "ValueError" THEN 1 ELSE 0)

\* the row has all it takes to become a record
RowParses(row) ==
    /\ InvalidCells(row) = 0
    /\ parser.variant = FortisCSVParser =>
          get_ogm_outcome(row.extra) \notin {"None", "ValueError"}

\* C14: in every parser variant, reading a file with all its columns raises
\* no exception; a row with an invalid amount or an invalid date has one
\* error per invalid field at its line and yields no record, and every row
\* that parses yields a record.
RowLocalErrors ==
    (FileRead /\ HeaderComplete) =>
        /\ parser.raised = NoException
        /\ \A i \in 1..Len(parser.csv_file.rows) :
              LET row == parser.csv_file.rows[i] IN
              /\ InvalidCells(row) > 0 =>
                    /\ Cardinality(ParserErrorsAt(i + 1)) = InvalidCells(row)
                    /\ RecordsAt(i + 1) = {}
              /\ RowParses(row) => Cardinality(RecordsAt(i + 1)) = 1

\* the columns the parser cannot do without
RequiredColumns(variant) ==
    {amount_column_name(variant), date_column_name(variant)}
        \cup (IF variant = FortisCSVParser THEN {"Details"} ELSE {})

\* C15: when a required column is absent from the header of a file with
\* data rows, the parser holds exactly one error, at line 0, naming a missing
\* column, and parsed_data is empty.
MissingColumnAborts ==
    (/\ FileRead
     /\ parser.csv_file.rows # <<>>
     /\ ~(RequiredColumns(parser.variant) \subseteq parser.csv_file.header)) =>
        /\ Len(parser.errors) = 1
        /\ parser.errors[1].line_no = 0
        /\ parser.errors[1].msg = "Missing column"
        /\ parser.errors[1].param \in
              RequiredColumns(parser.variant) \ parser.csv_file.header
        /\ parser.objects = <<>>

RECURSIVE Ancestors(_)
\* the options reached from x by following parent links once or more
Ancestors(x) ==
    IF x.parent = NoOption THEN {} ELSE {x.parent} \cup Ancestors(x.parent)

\* the cases of the rule, by place, whose every criterion is an ancestor of
\* some held option
MatchingCases(held) ==
    {i \in 1..Len(rule.matching_rules) :
        \A c \in 1..Len(rule.matching_rules[i].criteria) :
            \E o \in held : rule.matching_rules[i].criteria[c] \in Ancestors(o)}

DefaultData ==
    PricingData(rule.no_match_default, rule.description, rule.default_filter_slug)

\* opts_match has returned pricing data for rule.opts
Evaluated == rule # NoRule /\ rule.result.outcome = "PricingData"

\* _parse_specification has been called on the rule
ProcessingTried ==
    rule # NoRule /\ (rule.processed \/ rule.raised # NotRaised)

\* the options the registry holds under the path /qux
QuxOptions ==
    {rule.registry.seen[i].opt :
        i \in {j \in 1..Len(rule.registry.seen) :
                  rule.registry.seen[j].path = <<"/", "qux">>}}

\* C17: opts_match on a processed rule returns the data of the first case, in
\* specification order, whose every criterion contains a held option, and the
\* default data when no case matches; the rule "[/foo, /bar/baz] -> 10" with
\* default 5 can be processed and gives price 5 against {/qux}.
FirstMatchOrDefault ==
    /\ Evaluated =>
          IF MatchingCases(rule.opts) = {}
          THEN rule.result.data = DefaultData
          ELSE \E i \in MatchingCases(rule.opts) :
                  /\ \A j \in MatchingCases(rule.opts) : i <= j
                  /\ rule.result.data = rule.matching_rules[i].pricing_data
    /\ (ProcessingTried /\ rule.specification = <<LineSpaced>>) =>
          /\ rule.processed
          /\ (Evaluated /\ QuxOptions # {} /\ rule.opts = QuxOptions) =>
                rule.result.data.price = 5

RECURSIVE Depth(_)
Depth(x) == IF x.parent = NoOption THEN 0 ELSE 1 + Depth(x.parent)

\* C18: among the options of the registry, x in y holds exactly when y is an
\* ancestor of x; the relation is transitive, no option contains itself or
\* one of its ancestors, and the test ends at the root at the latest.
ContainmentIsAncestry ==
    rule # NoRule =>
        \A x \in Options(rule.registry) :
            /\ ~option_contains(x, x)
            /\ \A a \in Ancestors(x) : ~option_contains(x, a)
            /\ \A y \in Options(rule.registry) :
                  /\ option_contains(y, x) <=> y \in Ancestors(x)
                  /\ contains_calls(y, x) <= Depth(x) + 2
                  /\ \A z \in Options(rule.registry) :
                        (option_contains(z, y) /\ option_contains(y, x)) =>
                            option_contains(z, x)

\* a chain of three options in the registry, and a rule evaluated on the
\* lowest one that returned a case
ContainmentIsAncestryWitness ==
    /\ Evaluated
    /\ rule.result.data # DefaultData
    /\ \E x \in rule.opts, y, z \in Options(rule.registry) :
          /\ option_contains(y, x)
          /\ option_contains(z, y)
          /\ z.parent # NoOption

\* C19: when opts_match has been evaluated on the held set O, every case that
\* matches O matches every larger set of options, and a case returned for O
\* means a case is returned for every larger set.
PricingMonotone ==
    Evaluated =>
        \A held \in SUBSET Options(rule.registry) :
            rule.opts \subseteq held =>
                /\ \A i \in 1..Len(rule.matching_rules) :
                      case_matches(rule.matching_rules[i].criteria, rule.opts) =>
                          case_matches(rule.matching_rules[i].criteria, held)
                /\ first_match(rule.matching_rules, rule.opts, 1) # 0 =>
                      opts_match(rule, held).data # DefaultData

\* a rule that returned a case for {y}, with an option x below y registered
PricingMonotoneWitness ==
    /\ Evaluated
    /\ rule.result.data # DefaultData
    /\ \E y \in rule.opts :
          /\ rule.opts = {y}
          /\ \E x \in Options(rule.registry) :
                /\ y \in Ancestors(x)
                /\ opts_match(rule, {x, y}) = rule.result

\* the option strings of a case line
OptionsOf(line) ==
    LET option_list_str == strip(case_match(strip(line)).match_options)
    IN  IF option_list_str = <<>> THEN {} ELSE Range(split(option_list_str, ","))

\* the paths the registry knows
KnownPaths(registry) == {registry.seen[i].path : i \in 1..Len(registry.seen)}

\* the places of the lines that are malformed or name a path the registry
\* does not know
Offending(r) ==
    {i \in 1..Len(r.specification) :
        \/ ~case_match(strip(r.specification[i])).matched
        \/ OptionsOf(r.specification[i]) \ KnownPaths(r.registry) # {}}

\* a step that processes a specification with an offending line ends in a
\* ValueError carrying the number of the first such line, the rule unprocessed
FailsAtOffendingLine ==
    (rule # NoRule /\ ~ProcessingTried /\ ProcessingTried'
        /\ Offending(rule) # {}) =>
        /\ ~rule'.processed
        /\ rule'.raised.exc = "ValueError"
        /\ \E i \in Offending(rule) :
              /\ \A j \in Offending(rule) : i <= j
              /\ rule'.raised.line_no \in {i - 1, i}

\* a call of opts_match on an unprocessed rule raises
UnprocessedRaises ==
    (rule # NoRule /\ ~rule.processed /\ rule'.result # rule.result) =>
        rule'.result.outcome = "ValueError"

\* C20: processing a specification with a malformed line, or with a case
\* naming a path the registry does not know, raises an error carrying the
\* number of the first such line and leaves the rule unprocessed; opts_match
\* on an unprocessed rule raises.
ParseErrorsAreFatal == [][FailsAtOffendingLine /\ UnprocessedRaises]_vars

(* ------------------ properties of a record's balances ----------------- *)
\* what the record shows for a property it has been asked for
Shown(name) == Cached(record, name)

\* C21: on the annotated and on the fallback path, the balance shown is
\* total_amount minus the sum of the splits (zero for a record without pk),
\* and paid / fully_used is shown exactly when that balance is <= 0.
BalanceAndPaid ==
    record # NoRecord =>
        LET matched == IF record.pk = NoPk THEN 0 ELSE Sum(record.split_manager)
        IN  /\ \A v \in Shown("matched_balance") : v = matched
            /\ \A v \in Shown("unmatched_balance") :
                  v = record.total_amount - matched
            /\ \A v \in Shown("fully_matched") :
                  (v = 1) <=> (record.total_amount - matched <= 0)

(* ---------------------- properties of error lists --------------------- *)
\* C22: the error list of a parser and of a preparator holds the errors in
\* the reverse of the order of the calls that added them, and the line
\* numbers of every preparator error ascend.
ErrorsNewestFirst ==
    parser # NoParser =>
        /\ \A i \in 1..Len(parser.errors) :
              parser.errors[i].param = Len(parser.errors) - i + 1
        /\ \A i \in 1..Len(errors) :
              /\ errors[i].params = Len(errors) - i + 1
              /\ \A j, k \in 1..Len(errors[i].lines) :
                    j < k => errors[i].lines[j] <= errors[i].lines[k]

\* two errors on each list, and a preparator error on two different lines
ErrorsNewestFirstWitness ==
    /\ parser # NoParser
    /\ Len(parser.errors) = 2
    /\ Len(errors) = 2
    /\ parser.errors[1].line_no # parser.errors[2].line_no
    /\ errors[2].lines = <<2, 3>>

(* ------------------ properties of committing a batch ------------------ *)
\* every ledger entry the formsets of the batch would save
BatchEntries ==
    UNION {FormsetEntries(i, form.formsets[i].forms) :
              i \in 1..Len(form.formsets)}

\* the entries of the batch that are in the store
BatchStored == Range(store_payments) \cap BatchEntries

\* C23: the store never holds a part of the batch; with an invalid formset
\* the call raises and nothing is saved, not even inside the transaction;
\* after a failing save the store holds no entry of the batch; when the call
\* returns the store holds all of them.
AllOrNothing ==
    form # NoForm =>
        /\ BatchStored \in {{}, BatchEntries}
        /\ (\E i \in 1..Len(form.formsets) : ~form.formsets[i].valid) =>
              /\ BatchStored = {}
              /\ form.written = <<>>
              /\ form.pc \notin {"atomic", "done"}
        /\ form.raised # NoException => BatchStored = {}
        /\ form.pc = "done" =>
              /\ BatchStored = BatchEntries
              /\ form.raised = NoException

\* the second formset failed to save after the first had saved its forms
AllOrNothingWitness ==
    /\ form # NoForm
    /\ form.raised = "DatabaseError"
    /\ form.written # <<>>
    /\ store_payments = <<>>

(* ----------------------- properties of the OGM codec ------------------ *)
\* base^exponent % modulus by repeated multiplication
RECURSIVE PowMod(_, _, _)
PowMod(base, exponent, modulus) ==
    IF exponent = 0 THEN 1 % modulus
    ELSE (base * PowMod(base, exponent - 1, modulus)) % modulus

\* (prefix * 10^9 + id) % 97, with 0 rendered as 97
Checksum(prefix_digit, record_id) ==
    LET remainder == (prefix_digit * PowMod(10, 9, 97) + (record_id % 97)) % 97
    IN  IF remainder = 0 THEN 97 ELSE remainder

\* the payer wrote the number exactly as it was encoded
WrittenAsEncoded == tracking.text = tracking.encoded

\* C24: for every prefix digit and record id, encode yields twelve digits whose
\* last two are the leading ten-digit number modulo 97 (97 for remainder 0);
\* parsing the encoded number succeeds and returns (prefix * 10^9 + id,
\* checksum); the number's quotient by 10^9 is the prefix; and the index
\* builder claims the encoded number iff its own prefix digit is that prefix.
OGMRoundTrip ==
    tracking # NoTracking =>
        LET check == Checksum(tracking.prefix_digit, tracking.record_id) IN
        /\ tracking.pc # "encode" =>
              /\ Len(tracking.encoded) = 12
              /\ \A i \in 1..12 : IsDigit(tracking.encoded[i])
              /\ digit_value(tracking.encoded[11]) * 10
                     + digit_value(tracking.encoded[12]) = check
        /\ tracking.pc \in {"append", "done"} /\ WrittenAsEncoded =>
              /\ tracking.parsed.raised = NoException
              /\ tracking.parsed.prefix =
                     [hi |-> tracking.prefix_digit, lo |-> tracking.record_id]
              /\ tracking.parsed.modulus = check
              /\ floordiv_milliard(tracking.parsed.prefix) = tracking.prefix_digit
        /\ tracking.pc = "done" /\ WrittenAsEncoded =>
              /\ tracking.returned <=> tracking.builder = tracking.prefix_digit
              /\ tracking.returned <=>
                     tracking.line_index =
                         <<[key |-> tracking.encoded, lines |-> <<2>>]>>

\* an encoded number whose remainder is 0 was parsed and claimed by the
\* builder of its prefix
OGMRoundTripWitness ==
    /\ tracking # NoTracking
    /\ tracking.pc = "done"
    /\ WrittenAsEncoded
    /\ SubSeq(tracking.encoded, 11, 12) = <<"9", "7">>
    /\ tracking.record_id > 96
    /\ tracking.returned

=============================================================================
